---- MODULE Spec2Model ----
(***************************************************************************)
(* Tatbeeb Link relay: the tenant registry, the public port pool and the   *)
(* session lifecycle of the relay drafts found in the repository.          *)
(*                                                                         *)
(*   SpecB  main.go            authenticated relay (RelayServer, yamux)    *)
(*   SpecH  main.go            its handshakes, message by message          *)
(*   SpecA  unnamed/part_001   line-protocol relay (RelayServer, agents)   *)
(*   SpecS  main-simple.go     line-protocol relay over yamux (SimpleRelay)*)
(*   SpecF  main.go            the forwarder of one client connection      *)
(*   SpecN  main.go, part_000  registrations and the HIS notifications     *)
(*   SpecL  main-simple.go, part_001  the first line of the line protocol  *)
(*   SpecP  part_001           assignPort and releasePort on their own     *)
(*   SpecK  main.go, part_001  the mutexes and the I/O made under them     *)
(*   SpecR  main.go            registrations and the life of the process   *)
(*                                                                         *)
(* Every draft is a separate program with its own state; the variables of  *)
(* a draft are left unchanged by the actions of the others.                *)
(***************************************************************************)
EXTENDS Integers, Sequences, FiniteSets, TLC

\* ------------------------------------------------------------------ bounds
\* Number of ports in main.go's configured range [TenantPortStart, TenantPortEnd].
NPorts == 2
\* Number of ports in part_001's configured range.
NPortsA == 1
\* Control connections accepted by main.go's Start loop during a run.
MaxConnsB == 3
\* External client connections dialled to public ports during a run.
MaxClients == 2
\* Control connections accepted by part_001's main loop during a run.
MaxConnsA == 2
\* Number of ports of main-simple.go's pool that the model keeps (the program
\* has SimpleEndPort - SimpleStartPort + 1 of them).
NPortsS == 2
\* Control connections accepted by main-simple.go's Start loop during a run.
MaxConnsS == 3
\* Bytes each end of a forwarded connection writes during a run.
MaxBytes == 2
\* SendHeartbeat calls one sendHeartbeats goroutine makes during a run.
MaxBeats == 1
\* Control connections handled during a run that includes the notifications.
MaxConnsN == 2
\* Tokens (words and white space) in the first line of a control connection.
MaxLineLen == 2
\* Control connections per draft in a run that reads first lines token by token.
MaxConnsL == 2
\* Ports of the range, and the longest free list, when the pool is run on its own.
NPortsP == 3
MaxFreeLen == 4

\* --------------------------------------------------------- configuration
TenantPortStart == 1
TenantPortEnd == TenantPortStart + NPorts - 1
Ports == TenantPortStart..TenantPortEnd
PortsA == TenantPortStart..(TenantPortStart + NPortsA - 1)
\* The values of server.maxConnectionsPerTenant the relay is started with; a
\* configuration file without the key yields 0.
MaxConnectionsValues == {0, 1}

\* The tenant ids agents present in REGISTER payloads.
TenantIds == {"tenantA", "tenantB"}

VARIABLES
  \* ---- main.go (RelayServer)
  tenants,        \* s.tenants: tenant id -> *Tenant (the handler that built it), 0 = absent
  nextPortIndex,  \* s.nextPortIndex
  pc,             \* position of each handleControlConnection task
  tid,            \* regPayload.TenantID of the task ("" before it is read)
  AssignedPort,   \* Tenant.AssignedPort of the tenant the task built (0 = none)
  Listener,       \* Tenant.Listener: "none" | "open" | "closed"
  ActiveConns,    \* Tenant.ActiveConns
  session,        \* the task's yamux session: "open" | "dead" | "closed"
  acceptLoop,     \* acceptTenantConnections goroutine: "none" | "running" (in
                  \* Accept) | "testing" (a client accepted, the limit test next) | "done"
  cpc,            \* external client: "idle" | "accepted" | "counted" | "forwarding" |
                  \* "refused" | "closed"
  csess,          \* the tenant (handler) a client was accepted for, 0 = none
  replaced,       \* history: the handler whose registerTenant found this tenant as `existing`
  MaxConnectionsPerTenant, \* s.config.MaxConnectionsPerTenant, fixed at start
  msg,            \* history, kept under SpecH: the message the handshake step
                  \* just taken has read
  errorCode,      \* the code of the ERROR frame sendError wrote to the agent ("" = none)
  \* ---- unnamed/part_001 (RelayServer with agents)
  agents,         \* r.agents: port -> *Agent (the handler that built it), 0 = absent
  availablePorts, \* r.availablePorts
  aPc,            \* position of each handleAgent task
  aPort,          \* handleAgent's local `port`
  aListener,      \* Agent.listener: "none" | "open" | "closed"
  aConn,          \* Agent.conn: "open" | "peerclosed" | "closed"
  aAge,           \* time.Since(agent.lastHeartbeat) in 60 s units, saturating
  aFound,         \* cleanupAgent's local `agent` in the task's own call (0 = !exists)
  hbPc,           \* heartbeatChecker: "wait" | "loop" | "close" | "release"
  hbTick,         \* a tick of the 60 s ticker is pending in ticker.C
  hbPorts,        \* heartbeatChecker's local `ports` still to clean
  hbPort,         \* the port of the cleanupAgent call in progress
  hbFound,        \* cleanupAgent's local `agent` in the checker's call
  hbScanned,      \* history: port -> the agent the last scan saw there
  aWritten,       \* the last line handleAgent has written to its agent ("" = none)
  \* ---- main-simple.go (SimpleRelay)
  sTenants,       \* s.tenants: "tenant-<port>" -> *SimpleTenant (its handler), 0 = absent
  sNextPortIndex, \* s.nextPortIndex
  sPc,            \* position of each handleConnection task
  sPort,          \* handleConnection's local `port` (0 before allocation)
  sListener,      \* SimpleTenant.Listener: "none" | "open" | "closed"
  sConn,          \* the control connection and the yamux session on it:
                  \* "open" | "dead" | "closed"
  sActiveConns,   \* SimpleTenant.ActiveConns
  scPc,           \* external client: "idle" | "accepted" | "forwarding" | "closed" |
                  \* "closed_nostream" (OpenStream failed)
  scSess,         \* the tenant (handler) a client was accepted for, 0 = none
  \* ---- main.go, handleTenantConnection for one accepted client connection
  fPc,            \* "start" | "waiting" (at <-done) | "returned"
  fSent,          \* per direction: the bytes its source has written so far
  fBuf,           \* per direction: the bytes written and not yet copied
  fRecv,          \* per direction: the bytes copied to its destination
  fEnd,           \* per direction: the source has finished writing (EOF follows)
  fPump,          \* per direction: the io.Copy goroutine, "none" | "running" | "done"
  fDone,          \* number of values in the channel `done`
  fCloses,        \* number of Close calls on the "client" socket and the "stream"
  fActive,        \* what this connection contributes to tenant.ActiveConns
  fErr,           \* history: a pump has ended on an error of the transport
  \* ---- main.go, the goroutines that notify the HIS backend (part_000)
  nReg,           \* per handler: its RegisterPort goroutine, "none" | "called"
  nHb,            \* per handler: sendHeartbeats, "ticking" | "posting" | "stopped"
  nBeats,         \* per handler: number of SendHeartbeat calls made
  nLast,          \* the last call made to the HIS backend and what it met
  \* ---- main-simple.go and part_001, the read of the first line
  rawLine,        \* what the last read of a first line returned
  sWait,          \* seconds main-simple.go's handler has been blocked in that read
  aWait,          \* seconds part_001's handler has been blocked in that read
  \* ---- part_001, the port pool on its own
  pFree,          \* r.availablePorts
  pHeld,          \* the ports assignPort has returned and releasePort not taken back
  pLast,          \* the last call on the pool and its port
  pBefore,        \* r.availablePorts before the last assignPort
  \* ---- main.go and part_001, the mutexes
  kDraft,         \* the program that runs: "main.go" | "part_001"
  kPc,            \* per task: 0 = not running, else the index of its next operation
  locks,          \* per mutex: the task holding it for writing, the tasks holding
                  \* it for reading
  \* ---- main.go, the process
  process,        \* "running" | "panicked" (an unrecovered panic has ended the process)
  idLen           \* len(tenantID) of each tenant id agents present

varsB == <<tenants, nextPortIndex, pc, tid, AssignedPort, Listener, ActiveConns,
           session, acceptLoop, cpc, csess, replaced, MaxConnectionsPerTenant,
           msg, errorCode>>
varsA == <<agents, availablePorts, aPc, aPort, aListener, aConn, aAge, aFound,
           hbPc, hbTick, hbPorts, hbPort, hbFound, hbScanned,
          aWritten>>
varsS == <<sTenants, sNextPortIndex, sPc, sPort, sListener, sConn, sActiveConns,
           scPc, scSess>>
varsF == <<fPc, fSent, fBuf, fRecv, fEnd, fPump, fDone, fCloses, fActive, fErr>>
varsN == <<nReg, nHb, nBeats, nLast>>
varsL == <<rawLine, sWait, aWait>>
varsP == <<pFree, pHeld, pLast, pBefore>>
varsK == <<kDraft, kPc, locks>>
varsR == <<process, idLen>>
vars == <<varsB, varsA, varsS, varsF, varsN, varsL, varsP, varsK, varsR>>
\* What the actions of one draft leave unchanged of the others.
notB == <<varsA, varsS, varsF, varsN, varsL, varsP, varsK, varsR>>
notBN == <<varsA, varsS, varsF, varsL, varsP, varsK, varsR>>
notBR == <<varsA, varsS, varsF, varsN, varsL, varsP, varsK>>
notA == <<varsB, varsS, varsF, varsN, varsL, varsP, varsK, varsR>>
notAL == <<varsB, varsS, varsF, varsN, varsP, varsK, varsR>>
notS == <<varsB, varsA, varsF, varsN, varsL, varsP, varsK, varsR>>
notSL == <<varsB, varsA, varsF, varsN, varsP, varsK, varsR>>
notF == <<varsB, varsA, varsS, varsN, varsL, varsP, varsK, varsR>>

HB == 1..MaxConnsB
CL == 1..MaxClients
HA == 1..MaxConnsA
HS == 1..MaxConnsS

\* =================================================================== main.go
\* NewRelayServer: portPool = [TenantPortStart .. TenantPortEnd]
portPool == [i \in 1..NPorts |-> TenantPortStart + i - 1]

\* handleMetrics: "available_ports": len(s.portPool) - s.nextPortIndex
available_ports == Len(portPool) - nextPortIndex

\* handleMetrics / handleHealth: len(s.tenants)
active_tenants == Cardinality({t \in TenantIds : tenants[t] # 0})

\* No message was read in the last step.
NoMsg == [kind |-> "none"]

InitB ==
  /\ tenants = [t \in TenantIds |-> 0]
  /\ nextPortIndex = 0
  /\ pc = [h \in HB |-> "idle"]
  /\ tid = [h \in HB |-> ""]
  /\ AssignedPort = [h \in HB |-> 0]
  /\ Listener = [h \in HB |-> "none"]
  /\ ActiveConns = [h \in HB |-> 0]
  /\ session = [h \in HB |-> "open"]
  /\ acceptLoop = [h \in HB |-> "none"]
  /\ cpc = [c \in CL |-> "idle"]
  /\ csess = [c \in CL |-> 0]
  /\ replaced = [h \in HB |-> 0]
  /\ MaxConnectionsPerTenant \in MaxConnectionsValues
  /\ msg = NoMsg
  /\ errorCode = [h \in HB |-> ""]

\* ---- jwt.go
\* time.Now().Unix() when VerifyJWT runs.
Now == 2
Issuers == {"his.tatbeeb.sa", "other.issuer"}
Audiences == {"tatbeeb-link.tatbeeb.sa", "other.audience"}
jwtIssuer == "his.tatbeeb.sa"
jwtAudience == "tatbeeb-link.tatbeeb.sa"

\* A token: whether it splits into three parts, whether its third part is the
\* HMAC of the first two under the configured secret, whether its second part
\* decodes (base64url, JSON) into claims, and the claims (exp = 0: no exp).
Tokens == [parts3 : BOOLEAN, sigOK : BOOLEAN, decodes : BOOLEAN, iss : Issuers,
           aud : Audiences, exp : 0..(Now + 1), sub : TenantIds]

\* A VerifyJWT that does not compare the signature.
VerifyJWT_NoSignature(tok) ==
  /\ tok.parts3
  /\ tok.decodes
  /\ tok.iss = jwtIssuer
  /\ tok.aud = jwtAudience
  /\ ~(tok.exp > 0 /\ tok.exp < Now)
\* VerifyJWT returns the claims (err == nil) exactly when this holds.
VerifyJWT(tok) ==
  /\ tok.parts3
  /\ tok.sigOK
  /\ tok.decodes
  /\ tok.iss = jwtIssuer
  /\ tok.aud = jwtAudience
  /\ ~(tok.exp > 0 /\ tok.exp < Now)

\* What the first read of the control stream yields.
Messages ==
  [kind : {"unreadable", "other"}] \cup
  [kind : {"register"}, tenantID : TenantIds, jwt : Tokens]

\* ---- registry operations (each runs wholly under s.mu.Lock)
\* net.Listen on `port` succeeds only if no listener of this process is bound
\* there; it can also fail for reasons outside the relay.
PortBound(L, port) == \E g \in HB : AssignedPort[g] = port /\ L[g] = "open"

\* registerTenant, lines 283-290: close the listener of the existing entry.
CloseExisting(L, id) ==
  IF tenants[id] # 0 /\ L[tenants[id]] # "none"
  THEN [L EXCEPT ![tenants[id]] = "closed"]
  ELSE L

\* A registerTenant that forgets s.nextPortIndex++.
AllocIndex_NoAdvance == nextPortIndex
\* registerTenant, line 299: s.nextPortIndex++
AllocIndex == nextPortIndex + 1

registerTenant(h, id, bindOK) ==
  LET L1 == CloseExisting(Listener, id) IN
  IF nextPortIndex >= Len(portPool)
  THEN \* "No ports available": return nil
       /\ Listener' = L1
       /\ pc' = [pc EXCEPT ![h] = "done_noports"]
       /\ session' = [session EXCEPT ![h] = "closed"]
       /\ UNCHANGED <<tenants, nextPortIndex, AssignedPort, replaced>>
  ELSE LET port == portPool[nextPortIndex + 1]
           ok == bindOK /\ ~PortBound(L1, port)
       IN
       /\ nextPortIndex' = AllocIndex
       /\ IF ~ok
          THEN \* net.Listen failed: return nil
               /\ Listener' = L1
               /\ pc' = [pc EXCEPT ![h] = "done_bindfail"]
               /\ session' = [session EXCEPT ![h] = "closed"]
               /\ UNCHANGED <<tenants, AssignedPort, replaced>>
          ELSE /\ Listener' = [L1 EXCEPT ![h] = "open"]
               /\ AssignedPort' = [AssignedPort EXCEPT ![h] = port]
               /\ replaced' = IF tenants[id] # 0
                              THEN [replaced EXCEPT ![tenants[id]] = h]
                              ELSE replaced
               /\ tenants' = [tenants EXCEPT ![id] = h]
               /\ pc' = [pc EXCEPT ![h] = "reply"]
               /\ UNCHANGED session

\* unregisterTenant(tenantID): close the listener of whatever entry the id maps
\* to now and delete the entry.
unregisterTenant(id) ==
  IF tenants[id] # 0
  THEN /\ Listener' = (IF Listener[tenants[id]] # "none"
                       THEN [Listener EXCEPT ![tenants[id]] = "closed"]
                       ELSE Listener)
       /\ tenants' = [tenants EXCEPT ![id] = 0]
  ELSE UNCHANGED <<tenants, Listener>>

\* ---- handleControlConnection
\* Lines 166-234: yamux.Server, AcceptStream, Read, DecodeMessage, the type
\* check, DecodePayload, VerifyJWT and the claims.Sub comparison; every
\* failure returns, which runs the deferred stream/session/conn Close
\* (B_Reject).  Then registerTenant; nil => sendError and return (B_Register).
\* Start, lines 90-98, accepts the connections one after another: they are
\* numbered in the order in which their first message is read.
\* A handler that does not compare claims.Sub with the payload's tenant id.
Accepts_NoSubCheck(m) ==
  /\ m.kind = "register"
  /\ VerifyJWT(m.jwt)
Accepts(m) ==
  /\ m.kind = "register"
  /\ VerifyJWT(m.jwt)
  /\ m.jwt.sub = m.tenantID

\* The ERROR frame a message is answered with before registerTenant is
\* reached: lines 210-215 (INVALID_JWT), lines 218-222 (TENANT_ID_MISMATCH);
\* a message that cannot be read or is no REGISTER is dropped without a frame.
RejectCode(m) ==
  IF m.kind # "register" THEN ""
  ELSE IF ~VerifyJWT(m.jwt) THEN "INVALID_JWT"
  ELSE "TENANT_ID_MISMATCH"

\* The handler reads nothing of a message but whether it is accepted, its
\* tenant id when it is, and the code it is answered with when it is not.
AcceptedMessages == {m \in Messages : Accepts(m)}
RejectedMessages == {m \in Messages : ~Accepts(m)}
AcceptedIds == {m.tenantID : m \in AcceptedMessages}
RejectCodes == {RejectCode(m) : m \in RejectedMessages}

Reject(h, code) ==
  /\ pc[h] = "idle"
  /\ \A g \in HB : g < h => pc[g] # "idle"
  /\ errorCode' = [errorCode EXCEPT ![h] = code]
  /\ pc' = [pc EXCEPT ![h] = "done_rejected"]
  /\ session' = [session EXCEPT ![h] = "closed"]
  /\ UNCHANGED <<tenants, nextPortIndex, tid, AssignedPort, Listener, replaced,
                 ActiveConns, acceptLoop, cpc, csess>>
  /\ UNCHANGED <<MaxConnectionsPerTenant, notB>>

\* Lines 228-234: registerTenant; nil is answered with REGISTRATION_FAILED.
RegisterCore(h, id, bindOK) ==
  /\ pc[h] = "idle"
  /\ \A g \in HB : g < h => pc[g] # "idle"
  /\ tid' = [tid EXCEPT ![h] = id]
  /\ registerTenant(h, id, bindOK)
  /\ errorCode' = [errorCode EXCEPT ![h] = IF pc'[h] = "reply"
                                            THEN "" ELSE "REGISTRATION_FAILED"]
  /\ UNCHANGED <<ActiveConns, acceptLoop, cpc, csess>>

Register(h, id, bindOK) ==
  /\ RegisterCore(h, id, bindOK)
  /\ UNCHANGED <<MaxConnectionsPerTenant, notB>>

B_Reject(h) == \E code \in RejectCodes : Reject(h, code) /\ msg' = NoMsg

B_Register(h) ==
  \E id \in AcceptedIds, bindOK \in BOOLEAN : Register(h, id, bindOK) /\ msg' = NoMsg

\* The same two steps with the message they read kept in `msg`.
H_Reject(h) ==
  \E m \in RejectedMessages : Reject(h, RejectCode(m)) /\ msg' = m

H_Register(h) ==
  \E m \in AcceptedMessages, bindOK \in BOOLEAN :
    Register(h, m.tenantID, bindOK) /\ msg' = m

\* Lines 236-276: write REGISTERED; on a write error unregisterTenant and
\* return; otherwise start acceptTenantConnections and enter keepAlive.  A
\* write on a dead session fails; a write on a live one succeeds or fails
\* (the agent does not drain its end and the write times out).
B_Reply(h) ==
  /\ pc[h] = "reply"
  /\ \E writeOK \in BOOLEAN :
       IF writeOK /\ session[h] = "open"
       THEN /\ pc' = [pc EXCEPT ![h] = "keepAlive"]
            /\ acceptLoop' = [acceptLoop EXCEPT ![h] = "running"]
            /\ UNCHANGED <<tenants, Listener>>
       ELSE /\ unregisterTenant(tid[h])
            /\ pc' = [pc EXCEPT ![h] = "return_replyfail"]
            /\ UNCHANGED acceptLoop
  /\ UNCHANGED <<nextPortIndex, tid, AssignedPort, ActiveConns, session, cpc,
                 csess, replaced>>
  /\ msg' = NoMsg
  /\ UNCHANGED <<errorCode, MaxConnectionsPerTenant, notB>>

\* keepAlive, lines 418-434: a ping write that fails, on a dead session or by
\* its 5 s deadline on a live one, unregisters the tenant id and returns.  A
\* ping that succeeds changes nothing.
B_PingFail(h) ==
  /\ pc[h] = "keepAlive"
  /\ unregisterTenant(tid[h])
  /\ pc' = [pc EXCEPT ![h] = "return_pingfail"]
  /\ UNCHANGED <<nextPortIndex, tid, AssignedPort, ActiveConns, session,
                 acceptLoop, cpc, csess, replaced>>
  /\ msg' = NoMsg
  /\ UNCHANGED <<errorCode, MaxConnectionsPerTenant, notB>>

\* handleControlConnection returns after the unregisterTenant of line 254 or
\* of keepAlive: the deferred stream.Close, session.Close and conn.Close
\* (lines 183, 175, 167) run.
B_Return(h) ==
  /\ pc[h] \in {"return_replyfail", "return_pingfail"}
  /\ pc' = [pc EXCEPT ![h] = IF pc[h] = "return_replyfail"
                             THEN "done_replyfail" ELSE "done_pingfail"]
  /\ session' = [session EXCEPT ![h] = "closed"]
  /\ UNCHANGED <<tenants, nextPortIndex, tid, AssignedPort, Listener,
                 ActiveConns, acceptLoop, cpc, csess, replaced>>
  /\ msg' = NoMsg
  /\ UNCHANGED <<errorCode, MaxConnectionsPerTenant, notB>>

\* The agent's TLS connection is severed or the yamux keepalive fails: the
\* session shuts down and every read or write on it errors from now on.
B_SessionDies(h) ==
  /\ pc[h] \in {"reply", "keepAlive", "return_replyfail", "return_pingfail"}
  /\ session[h] = "open"
  /\ session' = [session EXCEPT ![h] = "dead"]
  /\ UNCHANGED <<tenants, nextPortIndex, pc, tid, AssignedPort, Listener,
                 ActiveConns, acceptLoop, cpc, csess, replaced>>
  /\ msg' = NoMsg
  /\ UNCHANGED <<errorCode, MaxConnectionsPerTenant, notB>>

\* acceptTenantConnections, lines 334-342: Accept returns an error, as it
\* does once the listener is closed and as the operating system can make it
\* do on an open one; the loop returns and the deferred
\* unregisterTenant(tenant.ID) runs.
B_AcceptLoopExit(h) ==
  /\ acceptLoop[h] = "running"
  /\ unregisterTenant(tid[h])
  /\ acceptLoop' = [acceptLoop EXCEPT ![h] = "done"]
  /\ UNCHANGED <<nextPortIndex, pc, tid, AssignedPort, ActiveConns, session, cpc,
                 csess, replaced>>
  /\ msg' = NoMsg
  /\ UNCHANGED <<errorCode, MaxConnectionsPerTenant, notB>>

\* An accept loop that never tests the limit.
AtLimit_Off(h) == FALSE
\* acceptTenantConnections, line 346:
\* tenant.ActiveConns >= s.config.MaxConnectionsPerTenant
AtLimit(h) == ActiveConns[h] >= MaxConnectionsPerTenant

\* acceptTenantConnections, line 352: tenant.ActiveConns++
Increment(n) == n + 1

\* acceptTenantConnections, line 338: Accept returns a client of the open
\* listener.  No lock is held: the listener can be closed and the tenant
\* removed before the limit test.
B_AcceptClient(h, c) ==
  /\ acceptLoop[h] = "running"
  /\ Listener[h] = "open"
  /\ cpc[c] = "idle"
  /\ \A d \in CL : d < c => cpc[d] # "idle"
  /\ cpc' = [cpc EXCEPT ![c] = "accepted"]
  /\ csess' = [csess EXCEPT ![c] = h]
  /\ acceptLoop' = [acceptLoop EXCEPT ![h] = "testing"]
  /\ UNCHANGED <<tenants, nextPortIndex, pc, tid, AssignedPort, Listener, session,
                 ActiveConns, replaced>>
  /\ msg' = NoMsg
  /\ UNCHANGED <<errorCode, MaxConnectionsPerTenant, notB>>

\* acceptTenantConnections, lines 344-355: under tenant.mu the limit test; at
\* the limit the client is closed, otherwise it is counted and
\* handleTenantConnection starts; the loop goes back to Accept.
B_CountClient(c) ==
  /\ cpc[c] = "accepted"
  /\ IF AtLimit(csess[c])
     THEN /\ cpc' = [cpc EXCEPT ![c] = "refused"]
          /\ UNCHANGED ActiveConns
     ELSE /\ ActiveConns' = [ActiveConns EXCEPT ![csess[c]] = Increment(@)]
          /\ cpc' = [cpc EXCEPT ![c] = "counted"]
  /\ acceptLoop' = [acceptLoop EXCEPT ![csess[c]] = "running"]
  /\ UNCHANGED <<tenants, nextPortIndex, pc, tid, AssignedPort, Listener, session,
                 csess, replaced>>
  /\ msg' = NoMsg
  /\ UNCHANGED <<errorCode, MaxConnectionsPerTenant, notB>>

\* handleTenantConnection, lines 359-373: OpenStream, which fails on a session
\* that has ended and succeeds or fails on a live one; on failure the deferred
\* decrement and clientConn.Close run.
B_OpenStream(c) ==
  /\ cpc[c] = "counted"
  /\ \E openOK \in BOOLEAN :
       IF openOK /\ session[csess[c]] = "open"
       THEN /\ cpc' = [cpc EXCEPT ![c] = "forwarding"]
            /\ UNCHANGED ActiveConns
       ELSE /\ cpc' = [cpc EXCEPT ![c] = "closed"]
            /\ ActiveConns' = [ActiveConns EXCEPT ![csess[c]] = @ - 1]
  /\ UNCHANGED <<tenants, nextPortIndex, pc, tid, AssignedPort, Listener, session,
                 acceptLoop, csess, replaced>>
  /\ msg' = NoMsg
  /\ UNCHANGED <<errorCode, MaxConnectionsPerTenant, notB>>

\* handleTenantConnection, lines 377-392: one io.Copy returns because the
\* client or the agent ended its side; <-done, then the deferred stream.Close,
\* decrement and clientConn.Close.
B_PumpEnd(c) ==
  /\ cpc[c] = "forwarding"
  /\ session[csess[c]] = "open"
  /\ cpc' = [cpc EXCEPT ![c] = "closed"]
  /\ ActiveConns' = [ActiveConns EXCEPT ![csess[c]] = @ - 1]
  /\ UNCHANGED <<tenants, nextPortIndex, pc, tid, AssignedPort, Listener, session,
                 acceptLoop, csess, replaced>>
  /\ msg' = NoMsg
  /\ UNCHANGED <<errorCode, MaxConnectionsPerTenant, notB>>

\* handleTenantConnection, lines 377-392: the session is gone, so the stream
\* read errors, io.Copy returns and the same deferred calls run.
B_StreamError(c) ==
  /\ cpc[c] = "forwarding"
  /\ session[csess[c]] # "open"
  /\ cpc' = [cpc EXCEPT ![c] = "closed"]
  /\ ActiveConns' = [ActiveConns EXCEPT ![csess[c]] = @ - 1]
  /\ UNCHANGED <<tenants, nextPortIndex, pc, tid, AssignedPort, Listener, session,
                 acceptLoop, csess, replaced>>
  /\ msg' = NoMsg
  /\ UNCHANGED <<errorCode, MaxConnectionsPerTenant, notB>>

NextB ==
  \/ \E h \in HB : B_Reject(h)
  \/ \E h \in HB : B_Register(h)
  \/ \E h \in HB : B_Reply(h)
  \/ \E h \in HB : B_PingFail(h)
  \/ \E h \in HB : B_Return(h)
  \/ \E h \in HB : B_SessionDies(h)
  \/ \E h \in HB : B_AcceptLoopExit(h)
  \/ \E h \in HB, c \in CL : B_AcceptClient(h, c)
  \/ \E c \in CL : B_CountClient(c)
  \/ \E c \in CL : B_OpenStream(c)
  \/ \E c \in CL : B_PumpEnd(c)
  \/ \E c \in CL : B_StreamError(c)

\* The registration handshakes of main.go, message by message, the replies to
\* them and the accept loops they start and end (no keepAlive failure, no
\* external clients).
NextH ==
  \/ \E h \in HB : H_Reject(h)
  \/ \E h \in HB : H_Register(h)
  \/ \E h \in HB : B_Reply(h)
  \/ \E h \in HB : B_Return(h)
  \/ \E h \in HB : B_AcceptLoopExit(h)

\* ======================================================== unnamed/part_001
\* heartbeatChecker: time.NewTicker(60 * time.Second)
TickSeconds == 60
\* heartbeatChecker: time.Since(agent.lastHeartbeat) > 120*time.Second
TimeoutSeconds == 120
\* Ages are tracked up to the first value that is stale.
AgeCap == TimeoutSeconds + TickSeconds

InitA ==
  /\ agents = [p \in PortsA |-> 0]
  /\ availablePorts = [i \in 1..NPortsA |-> TenantPortStart + i - 1]
  /\ aPc = [h \in HA |-> "idle"]
  /\ aPort = [h \in HA |-> 0]
  /\ aListener = [h \in HA |-> "none"]
  /\ aConn = [h \in HA |-> "open"]
  /\ aAge = [h \in HA |-> 0]
  /\ aFound = [h \in HA |-> 0]
  /\ hbPc = "wait"
  /\ hbTick = FALSE
  /\ hbPorts = {}
  /\ hbPort = 0
  /\ hbFound = 0
  /\ hbScanned = [p \in PortsA |-> 0]
  /\ aWritten = [h \in HA |-> ""]

\* startHealthServer: "availablePorts": len(r.availablePorts)
free_count == Len(availablePorts)

\* releasePort, lines 528-533: r.availablePorts = append(r.availablePorts, port)
releasePortTo_Drop(list, port) == list
releasePortTo(list, port) == Append(list, port)
releasePort(port) == releasePortTo(availablePorts, port)

\* A cleanupAgent that closes the connection and leaves the listener bound.
CloseAgent_KeepListener(a) ==
  /\ aListener' = aListener
  /\ aConn' = [aConn EXCEPT ![a] = "closed"]
\* cleanupAgent, lines 541-547: agent.listener.Close(); agent.conn.Close()
CloseAgent(a) ==
  /\ aListener' = (IF aListener[a] # "none"
                   THEN [aListener EXCEPT ![a] = "closed"] ELSE aListener)
  /\ aConn' = [aConn EXCEPT ![a] = "closed"]

\* ---- the first line of a control connection (part_001 and main-simple.go)
\* A line is a sequence of tokens: words, and "sp" for a white-space
\* character.  What a read returns: the line before '\n', or an error
\* ("eof": the peer closed or reset; "timeout": the read deadline expired).
Tokens1 == {"sp", "REGISTER", "x"}
WhiteSpace == {"sp"}
RECURSIVE TrimLeft(_)
TrimLeft(l) == IF l # <<>> /\ Head(l) \in WhiteSpace THEN TrimLeft(Tail(l)) ELSE l
RECURSIVE TrimRight(_)
TrimRight(l) ==
  IF l # <<>> /\ l[Len(l)] \in WhiteSpace
  THEN TrimRight(SubSeq(l, 1, Len(l) - 1)) ELSE l
\* strings.TrimSpace
TrimSpace(l) == TrimRight(TrimLeft(l))
\* line != "REGISTER" (part_001 line 420), command != "REGISTER"
\* (main-simple.go line 107), negated.
IsRegister_Prefix(command) == command # <<>> /\ Head(command) = "REGISTER"
IsRegister(command) == command = <<"REGISTER">>

RawLines == UNION {[1..n -> Tokens1] : n \in 0..MaxLineLen}
FirstReads ==
  [err : {""}, raw : RawLines] \cup [err : {"eof"}, raw : {<<>>}]
Timeout == [err |-> "timeout", raw |-> <<>>]
NoRead == [err |-> "none", raw |-> <<>>]
\* The reads that differ in what the handler does next.
Lines ==
  {[err |-> "", raw |-> <<"REGISTER">>], [err |-> "", raw |-> <<"x">>],
   [err |-> "eof", raw |-> <<>>]}

\* assignPort, lines 515-526: the first free port, 0 when there is none.
assignPortFrom_Keep(list) ==
  IF Len(list) = 0
  THEN [port |-> 0, rest |-> list]
  ELSE [port |-> list[1], rest |-> list]
assignPortFrom(list) ==
  IF Len(list) = 0
  THEN [port |-> 0, rest |-> list]
  ELSE [port |-> list[1], rest |-> Tail(list)]
assignPort == assignPortFrom(availablePorts).port

\* handleAgent, lines 410-439: read the first line; a read error or anything
\* but REGISTER returns (deferred conn.Close); then assignPort, which returns
\* 0 ("ERROR no available ports", return) or a port, and the agent is created
\* with lastHeartbeat = time.Now().  main, lines 393-401, accepts the
\* connections one after another: they are numbered in the order in which
\* their first line is read.
A_Handle(h, r) ==
  /\ aPc[h] = "idle"
  /\ \A g \in HA : g < h => aPc[g] # "idle"
  /\ IF r.err # ""
     THEN /\ aPc' = [aPc EXCEPT ![h] = "done_readerr"]
          /\ aConn' = [aConn EXCEPT ![h] = "closed"]
          /\ UNCHANGED <<availablePorts, aPort, aWritten>>
     ELSE IF ~IsRegister(TrimSpace(r.raw))
     THEN /\ aPc' = [aPc EXCEPT ![h] = "done_invalid"]
          /\ aWritten' = [aWritten EXCEPT ![h] = "ERROR invalid command"]
          /\ aConn' = [aConn EXCEPT ![h] = "closed"]
          /\ UNCHANGED <<availablePorts, aPort>>
     ELSE IF assignPort = 0
     THEN /\ aPc' = [aPc EXCEPT ![h] = "done_noports"]
          /\ aWritten' = [aWritten EXCEPT ![h] = "ERROR no available ports"]
          /\ aConn' = [aConn EXCEPT ![h] = "closed"]
          /\ UNCHANGED <<availablePorts, aPort>>
     ELSE /\ aPort' = [aPort EXCEPT ![h] = assignPort]
          /\ availablePorts' = assignPortFrom(availablePorts).rest
          /\ aPc' = [aPc EXCEPT ![h] = "listen"]
          /\ UNCHANGED <<aConn, aWritten>>
  /\ UNCHANGED <<agents, aListener, aAge, aFound, hbPc, hbTick, hbPorts, hbPort,
                 hbFound, hbScanned>>
  /\ UNCHANGED notAL

A_Read(h) == \E r \in Lines : A_Handle(h, r) /\ UNCHANGED varsL

\* handleAgent, lines 441-455: net.Listen; on failure releasePort and return;
\* on success store the agent under its port.
A_Listen(h) ==
  /\ aPc[h] = "listen"
  /\ \E bindOK \in BOOLEAN :
       IF bindOK /\ ~(\E g \in HA : aPort[g] = aPort[h] /\ aListener[g] = "open")
       THEN /\ aListener' = [aListener EXCEPT ![h] = "open"]
            /\ agents' = [agents EXCEPT ![aPort[h]] = h]
            /\ aPc' = [aPc EXCEPT ![h] = "reply"]
            /\ UNCHANGED <<availablePorts, aConn, aWritten>>
       ELSE /\ availablePorts' = releasePort(aPort[h])
            /\ aPc' = [aPc EXCEPT ![h] = "done_bindfail"]
            /\ aWritten' = [aWritten EXCEPT ![h] = "ERROR failed to bind port"]
            /\ aConn' = [aConn EXCEPT ![h] = "closed"]
            /\ UNCHANGED <<agents, aListener>>
  /\ UNCHANGED <<aPort, aAge, aFound, hbPc, hbTick, hbPorts, hbPort, hbFound,
                 hbScanned>>
  /\ UNCHANGED notA

\* handleAgent, lines 457-469: write "OK port:<port>"; a write error starts
\* cleanupAgent(port); otherwise the heartbeat loop is entered.
A_Reply(h) ==
  /\ aPc[h] = "reply"
  /\ aPc' = [aPc EXCEPT ![h] = IF aConn[h] = "open" THEN "loop" ELSE "cleanup"]
  /\ aWritten' = [aWritten EXCEPT ![h] = IF aConn[h] = "open" THEN "OK port" ELSE @]
  /\ UNCHANGED <<agents, availablePorts, aPort, aListener, aConn, aAge, aFound,
                 hbPc, hbTick, hbPorts, hbPort, hbFound, hbScanned>>
  /\ UNCHANGED notA

\* handleAgent, lines 481-486: a HEARTBEAT line refreshes lastHeartbeat.
A_Heartbeat(h) ==
  /\ aPc[h] = "loop"
  /\ aConn[h] = "open"
  /\ aAge[h] # 0
  /\ aAge' = [aAge EXCEPT ![h] = 0]
  /\ UNCHANGED <<agents, availablePorts, aPc, aPort, aListener, aConn, aFound,
                 hbPc, hbTick, hbPorts, hbPort, hbFound, hbScanned>>
  /\ UNCHANGED <<aWritten, notA>>

\* handleAgent, lines 473-479 and 489-491: ReadString fails once the
\* connection is gone; the loop breaks and cleanupAgent(port) is called.
A_ReadErr(h) ==
  /\ aPc[h] = "loop"
  /\ aConn[h] # "open"
  /\ aPc' = [aPc EXCEPT ![h] = "cleanup"]
  /\ UNCHANGED <<agents, availablePorts, aPort, aListener, aConn, aAge, aFound,
                 hbPc, hbTick, hbPorts, hbPort, hbFound, hbScanned>>
  /\ UNCHANGED <<aWritten, notA>>

\* A cleanupAgent that leaves the entry in the map.
deleteAgent_Keep(port) == agents
\* cleanupAgent, line 538: delete(r.agents, port)
deleteAgent(port) == [agents EXCEPT ![port] = 0]

\* cleanupAgent, lines 536-539, called by handleAgent: under the lock, look up
\* and delete agents[port]; when nothing was there the call and the handler
\* return.
A_CleanupDelete(h) ==
  /\ aPc[h] = "cleanup"
  /\ aFound' = [aFound EXCEPT ![h] = agents[aPort[h]]]
  /\ agents' = deleteAgent(aPort[h])
  /\ IF agents[aPort[h]] # 0
     THEN /\ aPc' = [aPc EXCEPT ![h] = "close"]
          /\ UNCHANGED aConn
     ELSE /\ aPc' = [aPc EXCEPT ![h] = "done_cleaned"]
          /\ aConn' = [aConn EXCEPT ![h] = "closed"]
  /\ UNCHANGED <<availablePorts, aPort, aListener, aAge, hbPc, hbTick, hbPorts,
                 hbPort, hbFound, hbScanned>>
  /\ UNCHANGED <<aWritten, notA>>

\* cleanupAgent, lines 541-547, called by handleAgent.
A_CleanupClose(h) ==
  /\ aPc[h] = "close"
  /\ CloseAgent(aFound[h])
  /\ aPc' = [aPc EXCEPT ![h] = "release"]
  /\ UNCHANGED <<agents, availablePorts, aPort, aAge, aFound, hbPc, hbTick,
                 hbPorts, hbPort, hbFound, hbScanned>>
  /\ UNCHANGED <<aWritten, notA>>

\* cleanupAgent, line 548, called by handleAgent; then the handler returns.
A_CleanupRelease(h) ==
  /\ aPc[h] = "release"
  /\ availablePorts' = releasePort(aPort[h])
  /\ aPc' = [aPc EXCEPT ![h] = "done_cleaned"]
  /\ aConn' = [aConn EXCEPT ![h] = "closed"]
  /\ UNCHANGED <<agents, aPort, aListener, aAge, aFound, hbPc, hbTick, hbPorts,
                 hbPort, hbFound, hbScanned>>
  /\ UNCHANGED <<aWritten, notA>>

\* The agent goes away: reads and writes on its connection error from now on.
\* (Going away earlier in the handshake is seen by the relay at the same
\* places, the reply write or the loop read.)
A_AgentDisconnect(h) ==
  /\ aPc[h] \in {"reply", "loop"}
  /\ aConn[h] = "open"
  /\ aConn' = [aConn EXCEPT ![h] = "peerclosed"]
  /\ UNCHANGED <<agents, availablePorts, aPc, aPort, aListener, aAge, aFound,
                 hbPc, hbTick, hbPorts, hbPort, hbFound, hbScanned>>
  /\ UNCHANGED <<aWritten, notA>>

\* 60 seconds pass: every agent's lastHeartbeat is 60 s older and the ticker
\* of heartbeatChecker delivers a tick.
HasAgent(h) == aPc[h] \in {"listen", "reply", "loop", "cleanup", "close", "release"}

A_TimePasses ==
  /\ aAge' = [h \in HA |-> IF HasAgent(h) /\ aAge[h] < AgeCap
                           THEN aAge[h] + TickSeconds ELSE aAge[h]]
  /\ hbTick' = TRUE
  /\ UNCHANGED <<agents, availablePorts, aPc, aPort, aListener, aConn, aFound,
                 hbPc, hbPorts, hbPort, hbFound, hbScanned>>
  /\ UNCHANGED <<aWritten, notA>>

\* heartbeatChecker, lines 556-566: under the read lock collect the ports of
\* the agents whose lastHeartbeat is older than 120 s.
\* A scan whose threshold is one tick too long.
StalePorts_Late ==
  {p \in PortsA : agents[p] # 0 /\ aAge[agents[p]] > TimeoutSeconds + TickSeconds}
StalePorts == {p \in PortsA : agents[p] # 0 /\ aAge[agents[p]] > TimeoutSeconds}

HC_Scan ==
  /\ hbPc = "wait"
  /\ hbTick
  /\ hbTick' = FALSE
  /\ hbPorts' = StalePorts
  /\ hbScanned' = [p \in PortsA |-> IF p \in StalePorts THEN agents[p] ELSE 0]
  /\ hbPc' = IF StalePorts = {} THEN "wait" ELSE "loop"
  /\ UNCHANGED <<agents, availablePorts, aPc, aPort, aListener, aConn, aAge,
                 aFound, hbPort, hbFound>>
  /\ UNCHANGED <<aWritten, notA>>

\* heartbeatChecker, lines 569-572 with cleanupAgent, lines 536-539: the next
\* port of `ports` (Go's map order: any), looked up and deleted under the lock.
HC_CleanupDelete ==
  /\ hbPc = "loop"
  /\ \E p \in hbPorts :
       /\ hbPorts' = hbPorts \ {p}
       /\ agents' = deleteAgent(p)
       /\ IF agents[p] # 0
          THEN /\ hbPort' = p
               /\ hbFound' = agents[p]
               /\ hbPc' = "close"
               /\ UNCHANGED hbScanned
          ELSE /\ hbPc' = IF hbPorts \ {p} = {} THEN "wait" ELSE "loop"
               /\ hbScanned' = [hbScanned EXCEPT ![p] = 0]
               /\ UNCHANGED <<hbPort, hbFound>>
  /\ UNCHANGED <<availablePorts, aPc, aPort, aListener, aConn, aAge, aFound,
                 hbTick>>
  /\ UNCHANGED <<aWritten, notA>>

\* cleanupAgent, lines 541-547, called by heartbeatChecker.
HC_CleanupClose ==
  /\ hbPc = "close"
  /\ CloseAgent(hbFound)
  /\ hbPc' = "release"
  /\ UNCHANGED <<agents, availablePorts, aPc, aPort, aAge, aFound, hbTick,
                 hbPorts, hbPort, hbFound, hbScanned>>
  /\ UNCHANGED <<aWritten, notA>>

\* cleanupAgent, line 548, called by heartbeatChecker.
HC_CleanupRelease ==
  /\ hbPc = "release"
  /\ availablePorts' = releasePort(hbPort)
  /\ hbPc' = IF hbPorts = {} THEN "wait" ELSE "loop"
  /\ hbPort' = 0
  /\ hbFound' = 0
  /\ hbScanned' = [hbScanned EXCEPT ![hbPort] = 0]
  /\ UNCHANGED <<agents, aPc, aPort, aListener, aConn, aAge, aFound, hbTick,
                 hbPorts>>
  /\ UNCHANGED <<aWritten, notA>>

\* The last line handleAgent has written to the agent: line 422, line 430,
\* line 446, line 458 ("OK port:<port>"), or nothing.
aReply(h) == aWritten[h]

NextA ==
  \/ \E h \in HA : A_Read(h)
  \/ \E h \in HA : A_Listen(h)
  \/ \E h \in HA : A_Reply(h)
  \/ \E h \in HA : A_Heartbeat(h)
  \/ \E h \in HA : A_ReadErr(h)
  \/ \E h \in HA : A_CleanupDelete(h)
  \/ \E h \in HA : A_CleanupClose(h)
  \/ \E h \in HA : A_CleanupRelease(h)
  \/ \E h \in HA : A_AgentDisconnect(h)
  \/ A_TimePasses
  \/ HC_Scan
  \/ HC_CleanupDelete
  \/ HC_CleanupClose
  \/ HC_CleanupRelease

\* ============================================================ main-simple.go
\* main: NewSimpleRelay(50000, 50999)
SimpleStartPort == 50000
\* NewSimpleRelay: the pool, cut to its first NPortsS ports.
sPortPool == [i \in 1..NPortsS |-> SimpleStartPort + i - 1]
PortsS == {sPortPool[i] : i \in 1..NPortsS}

InitS ==
  /\ sTenants = [p \in PortsS |-> 0]
  /\ sNextPortIndex = 0
  /\ sPc = [h \in HS |-> "idle"]
  /\ sPort = [h \in HS |-> 0]
  /\ sListener = [h \in HS |-> "none"]
  /\ sConn = [h \in HS |-> "open"]
  /\ sActiveConns = [h \in HS |-> 0]
  /\ scPc = [c \in CL |-> "idle"]
  /\ scSess = [c \in CL |-> 0]

\* handleConnection, lines 86-122: read the first line under the 10 s deadline;
\* a read error or anything but REGISTER returns; then, under the lock, take
\* portPool[nextPortIndex] or answer "ERROR No ports available" and return.
\* Start, lines 75-83, accepts the connections one after another: they are
\* numbered in the order in which their first line is read.
S_Handle(h, r) ==
  /\ sPc[h] = "idle"
  /\ \A g \in HS : g < h => sPc[g] # "idle"
  /\ IF r.err # "" \/ ~IsRegister(TrimSpace(r.raw))
     THEN /\ sPc' = [sPc EXCEPT ![h] = "done_invalid"]
          /\ sConn' = [sConn EXCEPT ![h] = "closed"]
          /\ UNCHANGED <<sNextPortIndex, sPort>>
     ELSE IF sNextPortIndex >= Len(sPortPool)
     THEN /\ sPc' = [sPc EXCEPT ![h] = "done_noports"]
          /\ sConn' = [sConn EXCEPT ![h] = "closed"]
          /\ UNCHANGED <<sNextPortIndex, sPort>>
     ELSE /\ sPort' = [sPort EXCEPT ![h] = sPortPool[sNextPortIndex + 1]]
          /\ sNextPortIndex' = sNextPortIndex + 1
          /\ sPc' = [sPc EXCEPT ![h] = "reply"]
          /\ UNCHANGED sConn
  /\ UNCHANGED <<sTenants, sListener, sActiveConns, scPc, scSess>>
  /\ UNCHANGED notSL

S_Read(h) == \E r \in Lines : S_Handle(h, r) /\ UNCHANGED varsL

\* handleConnection, lines 124-139: write "OK port:<port>"; a write error
\* returns; then yamux.Server(conn, nil), which does not fail with the default
\* configuration.
S_Reply(h) ==
  /\ sPc[h] = "reply"
  /\ IF sConn[h] = "open"
     THEN /\ sPc' = [sPc EXCEPT ![h] = "listen"]
          /\ UNCHANGED sConn
     ELSE /\ sPc' = [sPc EXCEPT ![h] = "done_replyfail"]
          /\ sConn' = [sConn EXCEPT ![h] = "closed"]
  /\ UNCHANGED <<sTenants, sNextPortIndex, sPort, sListener, sActiveConns, scPc,
                 scSess>>
  /\ UNCHANGED notS

\* handleConnection, lines 141-158: net.Listen; on failure return (deferred
\* session.Close, conn.Close); on success store the tenant under its id.
S_Listen(h) ==
  /\ sPc[h] = "listen"
  /\ \E bindOK \in BOOLEAN :
       IF bindOK /\ ~(\E g \in HS : sPort[g] = sPort[h] /\ sListener[g] = "open")
       THEN /\ sListener' = [sListener EXCEPT ![h] = "open"]
            /\ sTenants' = [sTenants EXCEPT ![sPort[h]] = h]
            /\ sPc' = [sPc EXCEPT ![h] = "accepting"]
            /\ UNCHANGED sConn
       ELSE /\ sPc' = [sPc EXCEPT ![h] = "done_bindfail"]
            /\ sConn' = [sConn EXCEPT ![h] = "closed"]
            /\ UNCHANGED <<sTenants, sListener>>
  /\ UNCHANGED <<sNextPortIndex, sPort, sActiveConns, scPc, scSess>>
  /\ UNCHANGED notS

\* handleConnection, lines 169-178: a client is accepted and
\* handleClientConnection is started for it.
S_AcceptClient(h, c) ==
  /\ sPc[h] = "accepting"
  /\ sListener[h] = "open"
  /\ scPc[c] = "idle"
  /\ \A d \in CL : d < c => scPc[d] # "idle"
  /\ scPc' = [scPc EXCEPT ![c] = "accepted"]
  /\ scSess' = [scSess EXCEPT ![c] = h]
  /\ UNCHANGED <<sTenants, sNextPortIndex, sPc, sPort, sListener, sConn,
                 sActiveConns>>
  /\ UNCHANGED notS

\* handleClientConnection, lines 181-196: OpenStream, which fails on a session
\* that has ended and succeeds or fails on a live one; on failure the client
\* is closed; on success ActiveConns++ and the two pumps start.
S_OpenStream(c) ==
  /\ scPc[c] = "accepted"
  /\ \E openOK \in BOOLEAN :
       IF openOK /\ sConn[scSess[c]] = "open"
       THEN /\ scPc' = [scPc EXCEPT ![c] = "forwarding"]
            /\ sActiveConns' = [sActiveConns EXCEPT ![scSess[c]] = @ + 1]
       ELSE /\ scPc' = [scPc EXCEPT ![c] = "closed_nostream"]
            /\ UNCHANGED sActiveConns
  /\ UNCHANGED <<sTenants, sNextPortIndex, sPc, sPort, sListener, sConn, scSess>>
  /\ UNCHANGED notS

\* handleClientConnection, lines 198-223: one io.Copy returns (an end closed
\* its side, or the session is gone and the stream errors); <-done, then the
\* deferred ActiveConns--, stream.Close and clientConn.Close.
S_PumpEnd(c) ==
  /\ scPc[c] = "forwarding"
  /\ scPc' = [scPc EXCEPT ![c] = "closed"]
  /\ sActiveConns' = [sActiveConns EXCEPT ![scSess[c]] = @ - 1]
  /\ UNCHANGED <<sTenants, sNextPortIndex, sPc, sPort, sListener, sConn, scSess>>
  /\ UNCHANGED notS

\* handleConnection, lines 171-175 and the first deferred call, lines 160-165:
\* listener.Accept fails (nothing in the program closes the listener before,
\* so only the operating system can make it fail), the loop returns and the
\* tenant is deleted under s.mu.  The other deferred calls follow, in the
\* reverse of the order of their defer statements, with no lock held.
S_AcceptError(h) ==
  /\ sPc[h] = "accepting"
  /\ sTenants' = [sTenants EXCEPT ![sPort[h]] = 0]
  /\ sPc' = [sPc EXCEPT ![h] = "close_listener"]
  /\ UNCHANGED <<sNextPortIndex, sPort, sListener, sConn, sActiveConns, scPc,
                 scSess>>
  /\ UNCHANGED notS

\* handleConnection, line 147: the deferred listener.Close().
S_CloseListener(h) ==
  /\ sPc[h] = "close_listener"
  /\ sListener' = [sListener EXCEPT ![h] = "closed"]
  /\ sPc' = [sPc EXCEPT ![h] = "close_session"]
  /\ UNCHANGED <<sTenants, sNextPortIndex, sPort, sConn, sActiveConns, scPc,
                 scSess>>
  /\ UNCHANGED notS

\* handleConnection, lines 139 and 87: the deferred session.Close() and
\* conn.Close().
S_CloseSession(h) ==
  /\ sPc[h] = "close_session"
  /\ sConn' = [sConn EXCEPT ![h] = "closed"]
  /\ sPc' = [sPc EXCEPT ![h] = "done_teardown"]
  /\ UNCHANGED <<sTenants, sNextPortIndex, sPort, sListener, sActiveConns, scPc,
                 scSess>>
  /\ UNCHANGED notS

\* The agent goes away: the connection and the yamux session on it fail.
S_AgentDisconnect(h) ==
  /\ sPc[h] \in {"reply", "listen", "accepting", "close_listener", "close_session"}
  /\ sConn[h] = "open"
  /\ sConn' = [sConn EXCEPT ![h] = "dead"]
  /\ UNCHANGED <<sTenants, sNextPortIndex, sPc, sPort, sListener, sActiveConns,
                 scPc, scSess>>
  /\ UNCHANGED notS

\* The last line handleConnection has written to the agent: line 116
\* ("ERROR No ports available"), line 125 ("OK port:<port>"), or nothing.
sReply(h) ==
  CASE sPc[h] = "done_noports" -> "ERROR No ports available"
    [] sPc[h] \in {"listen", "accepting", "close_listener", "close_session",
                   "done_bindfail", "done_teardown"} -> "OK port"
    [] OTHER -> ""

NextS ==
  \/ \E h \in HS : S_Read(h)
  \/ \E h \in HS : S_Reply(h)
  \/ \E h \in HS : S_Listen(h)
  \/ \E h \in HS, c \in CL : S_AcceptClient(h, c)
  \/ \E c \in CL : S_OpenStream(c)
  \/ \E c \in CL : S_PumpEnd(c)
  \/ \E h \in HS : S_AcceptError(h)
  \/ \E h \in HS : S_CloseListener(h)
  \/ \E h \in HS : S_CloseSession(h)
  \/ \E h \in HS : S_AgentDisconnect(h)

\* ===================================== main.go, handleTenantConnection
\* One client connection from the moment acceptTenantConnections has counted
\* it (ActiveConns++, line 352) and started handleTenantConnection.
Bytes == {"x", "y"}
\* "c2a": io.Copy(stream, clientConn); "a2c": io.Copy(clientConn, stream).
Dirs == {"c2a", "a2c"}
\* done := make(chan error, 2)
DoneCap == 2

InitF ==
  /\ fPc = "start"
  /\ fSent = [d \in Dirs |-> <<>>]
  /\ fBuf = [d \in Dirs |-> <<>>]
  /\ fRecv = [d \in Dirs |-> <<>>]
  /\ fEnd = [d \in Dirs |-> FALSE]
  /\ fPump = [d \in Dirs |-> "none"]
  /\ fDone = 0
  /\ fCloses = [x \in {"client", "stream"} |-> 0]
  /\ fActive = 1
  /\ fErr = FALSE

\* Lines 361-365: the deferred tenant.ActiveConns--.
Decrement_Twice(n) == n - 2
Decrement(n) == n - 1

\* Lines 368-388: OpenStream; on failure the function returns (deferred
\* decrement and clientConn.Close); on success the two pumps are started.
F_OpenStream ==
  /\ fPc = "start"
  /\ \E ok \in BOOLEAN :
       IF ok
       THEN /\ fPc' = "waiting"
            /\ fPump' = [d \in Dirs |-> "running"]
            /\ UNCHANGED <<fCloses, fActive>>
       ELSE /\ fPc' = "returned"
            /\ fActive' = Decrement(fActive)
            /\ fCloses' = [fCloses EXCEPT !["client"] = @ + 1]
            /\ UNCHANGED fPump
  /\ UNCHANGED <<fSent, fBuf, fRecv, fEnd, fDone, fErr>>
  /\ UNCHANGED notF

\* The external client ("c2a") or the agent ("a2c") writes a byte.
F_Write(d) ==
  /\ fPc # "returned"
  /\ ~fEnd[d]
  /\ Len(fSent[d]) < MaxBytes
  /\ \E b \in Bytes :
       /\ fSent' = [fSent EXCEPT ![d] = Append(@, b)]
       /\ fBuf' = [fBuf EXCEPT ![d] = Append(@, b)]
  /\ UNCHANGED <<fPc, fRecv, fEnd, fPump, fDone, fCloses, fActive, fErr>>
  /\ UNCHANGED notF

\* The external client or the agent finishes writing (close or half-close).
F_Finish(d) ==
  /\ fPc # "returned"
  /\ ~fEnd[d]
  /\ fEnd' = [fEnd EXCEPT ![d] = TRUE]
  /\ UNCHANGED <<fPc, fSent, fBuf, fRecv, fPump, fDone, fCloses, fActive, fErr>>
  /\ UNCHANGED notF

\* io.Copy: what one Read of k bytes hands to Write.
CopyChunk(buf, k) == SubSeq(buf, 1, k)

\* Lines 380-388: one round of io.Copy, a Read from the source and a Write
\* of what was read to the destination, while neither end is closed.
F_Copy(d) ==
  /\ fPump[d] = "running"
  /\ fPc = "waiting"
  /\ \E k \in 1..Len(fBuf[d]) :
       /\ fRecv' = [fRecv EXCEPT ![d] = @ \o CopyChunk(fBuf[d], k)]
       /\ fBuf' = [fBuf EXCEPT ![d] = SubSeq(@, k + 1, Len(@))]
  /\ UNCHANGED <<fPc, fSent, fEnd, fPump, fDone, fCloses, fActive, fErr>>
  /\ UNCHANGED notF

\* Lines 380-388: io.Copy returns - its source is at EOF, or the handler has
\* closed both ends - and the goroutine sends on `done`.
F_PumpEnd(d) ==
  /\ fPump[d] = "running"
  /\ (fBuf[d] = <<>> /\ fEnd[d]) \/ fPc = "returned"
  /\ fDone < DoneCap
  /\ fPump' = [fPump EXCEPT ![d] = "done"]
  /\ fDone' = fDone + 1
  /\ UNCHANGED <<fPc, fSent, fBuf, fRecv, fEnd, fCloses, fActive, fErr>>
  /\ UNCHANGED notF

\* Lines 380-388: io.Copy returns an error of the transport (reset, session
\* gone) whatever is still unread.
F_PumpError(d) ==
  /\ fPump[d] = "running"
  /\ fPc = "waiting"
  /\ fDone < DoneCap
  /\ fPump' = [fPump EXCEPT ![d] = "done"]
  /\ fDone' = fDone + 1
  /\ fErr' = TRUE
  /\ UNCHANGED <<fPc, fSent, fBuf, fRecv, fEnd, fCloses, fActive>>
  /\ UNCHANGED notF

\* Line 391 and the deferred calls of lines 373, 361-365 and 360: the first
\* value on `done` lets the handler return; stream.Close, ActiveConns--,
\* clientConn.Close.
F_Return ==
  /\ fPc = "waiting"
  /\ fDone >= 1
  /\ fDone' = fDone - 1
  /\ fPc' = "returned"
  /\ fCloses' = [x \in {"client", "stream"} |-> fCloses[x] + 1]
  /\ fActive' = Decrement(fActive)
  /\ UNCHANGED <<fSent, fBuf, fRecv, fEnd, fPump, fErr>>
  /\ UNCHANGED notF

NextF ==
  \/ F_OpenStream
  \/ \E d \in Dirs : F_Write(d)
  \/ \E d \in Dirs : F_Finish(d)
  \/ \E d \in Dirs : F_Copy(d)
  \/ \E d \in Dirs : F_PumpEnd(d)
  \/ \E d \in Dirs : F_PumpError(d)
  \/ F_Return

\* ============================ main.go and part_000, the HIS notifications
\* What one HTTP call to the HIS backend can meet.
Outcomes == {"ok", "transport_error", "timeout", "non200", "success_false"}

\* part_000, RegisterPort (lines 43-94): an error for a failed Do (transport
\* error or the client's 10 s timeout), a status other than 200 and a body
\* whose success field is false.
RegisterPortErr(o) == o # "ok"
\* part_000, SendHeartbeat (lines 107-142): an error for a failed Do and a
\* status other than 200; the body is not looked at.
SendHeartbeatErr(o) == o \in {"transport_error", "timeout", "non200"}

NoCall == [call |-> "none"]

InitN ==
  /\ nReg = [h \in HB |-> "none"]
  /\ nHb = [h \in HB |-> "ticking"]
  /\ nBeats = [h \in HB |-> 0]
  /\ nLast = NoCall

\* Lines 258-273 are reached once REGISTERED was written: the handler is in
\* keepAlive or has left it.
Notifying(h) == pc[h] \in {"keepAlive", "return_pingfail", "done_pingfail"}

\* main.go 262-266 and 412-414: what an error of a notification does beyond
\* the log line - nothing.
TearsDown_OnError(err) == err
TearsDown(err) == FALSE

NotifierEffect(h, err) ==
  /\ IF TearsDown(err)
     THEN unregisterTenant(tid[h])
     ELSE UNCHANGED <<tenants, Listener>>
  /\ UNCHANGED <<nextPortIndex, pc, tid, AssignedPort, ActiveConns, session,
                 acceptLoop, cpc, csess, replaced, msg, errorCode,
                 MaxConnectionsPerTenant>>
  /\ UNCHANGED notBN

\* Lines 261-267: the goroutine that calls hisClient.RegisterPort.
N_RegisterPort(h) ==
  /\ Notifying(h)
  /\ nReg[h] = "none"
  /\ nReg' = [nReg EXCEPT ![h] = "called"]
  /\ \E o \in Outcomes :
       /\ nLast' = [call |-> "RegisterPort", h |-> h, outcome |-> o]
       /\ NotifierEffect(h, RegisterPortErr(o))
  /\ UNCHANGED <<nHb, nBeats>>

\* sendHeartbeats, lines 398-409: one tick; under the read lock the tenant id
\* is looked up; the goroutine returns when it is no longer registered.  The
\* lock is released before the call of line 412.
N_Tick(h) ==
  /\ Notifying(h)
  /\ nHb[h] = "ticking"
  /\ IF tenants[tid[h]] = 0
     THEN nHb' = [nHb EXCEPT ![h] = "stopped"]
     ELSE /\ nBeats[h] < MaxBeats
          /\ nHb' = [nHb EXCEPT ![h] = "posting"]
  /\ NotifierEffect(h, FALSE)
  /\ UNCHANGED <<nReg, nBeats, nLast>>

\* sendHeartbeats, lines 412-414: the call of SendHeartbeat, with no lock held.
N_Heartbeat(h) ==
  /\ nHb[h] = "posting"
  /\ \E o \in Outcomes :
       /\ nLast' = [call |-> "SendHeartbeat", h |-> h, outcome |-> o]
       /\ NotifierEffect(h, SendHeartbeatErr(o))
  /\ nBeats' = [nBeats EXCEPT ![h] = @ + 1]
  /\ nHb' = [nHb EXCEPT ![h] = "ticking"]
  /\ UNCHANGED nReg

\* The registrations of main.go with their accept loops and their
\* notifications (no external clients).
HN == 1..MaxConnsN

NextN ==
  \/ \E h \in HN : B_Reject(h)
  \/ \E h \in HN : B_Register(h)
  \/ \E h \in HN : B_Reply(h)
  \/ \E h \in HN : B_SessionDies(h)
  \/ \E h \in HN : B_PingFail(h)
  \/ \E h \in HN : B_Return(h)
  \/ \E h \in HN : B_AcceptLoopExit(h)
  \/ \E h \in HN : N_RegisterPort(h)
  \/ \E h \in HN : N_Tick(h)
  \/ \E h \in HN : N_Heartbeat(h)

\* ================== part_001 and main-simple.go, the first line and the clock
\* main-simple.go line 90: conn.SetReadDeadline(time.Now().Add(10 * time.Second))
ReadDeadlineSeconds == 10
\* The step of the clock, and where the model stops counting a wait.
ReadTick == 10
WaitCap == 2 * ReadDeadlineSeconds

InitL ==
  /\ rawLine = NoRead
  /\ sWait = 0
  /\ aWait = 0

HL == 1..MaxConnsL
sReading == \E h \in HL : sPc[h] = "idle"
aReading == \E h \in HL : aPc[h] = "idle"

\* main-simple.go lines 90-104: the read returns a line or fails before the
\* deadline.
S_ReadRaw(h) ==
  /\ \E r \in FirstReads : S_Handle(h, r) /\ rawLine' = r
  /\ sWait' = 0
  /\ UNCHANGED aWait

\* main-simple.go lines 90-98: the deadline expires, conn.Read returns a
\* timeout error and the handler returns.
S_ReadTimeout(h) ==
  /\ sWait >= ReadDeadlineSeconds
  /\ S_Handle(h, Timeout) /\ rawLine' = Timeout
  /\ sWait' = 0
  /\ UNCHANGED aWait

\* part_001 lines 410-424: reader.ReadString('\n') returns a line or fails;
\* no deadline is set on the connection.
A_ReadRaw(h) ==
  /\ \E r \in FirstReads : A_Handle(h, r) /\ rawLine' = r
  /\ aWait' = 0
  /\ UNCHANGED sWait

\* ReadTick seconds pass while the peers stay silent.  The read of
\* main-simple.go cannot stay blocked past its deadline; nothing bounds the
\* read of part_001.
L_TimePasses ==
  /\ sReading => sWait + ReadTick <= ReadDeadlineSeconds
  /\ sReading \/ (aReading /\ aWait < WaitCap)
  /\ sWait' = IF sReading THEN sWait + ReadTick ELSE sWait
  /\ aWait' = IF aReading /\ aWait < WaitCap THEN aWait + ReadTick ELSE aWait
  /\ UNCHANGED <<rawLine, varsB, varsA, varsS, varsF, varsN, varsP, varsK, varsR>>

\* The variant-A handshakes of both drafts, first lines read token by token.
NextL ==
  \/ \E h \in HL : S_ReadRaw(h)
  \/ \E h \in HL : S_ReadTimeout(h)
  \/ \E h \in HL : S_Reply(h)
  \/ \E h \in HL : S_Listen(h)
  \/ \E h \in HL : A_ReadRaw(h)
  \/ \E h \in HL : A_Listen(h)
  \/ \E h \in HL : A_Reply(h)
  \/ L_TimePasses

\* ================================================== part_001, the port pool
\* NewRelayServer fills availablePorts with the range in ascending order; the
\* pool is then driven by every call its two methods allow.
PortsP == TenantPortStart..(TenantPortStart + NPortsP - 1)
\* The arguments releasePort is called with: every port of the range, held or
\* not, and an int outside the range.
ReleaseArgs == PortsP \cup {TenantPortStart + NPortsP}
NoOp == [op |-> "none", port |-> 0]

InitP ==
  /\ pFree = [i \in 1..NPortsP |-> TenantPortStart + i - 1]
  /\ pHeld = {}
  /\ pLast = NoOp
  /\ pBefore = <<>>

\* assignPort, lines 515-526.
P_Assign ==
  /\ LET a == assignPortFrom(pFree) IN
       /\ pFree' = a.rest
       /\ pHeld' = IF a.port = 0 THEN pHeld ELSE pHeld \cup {a.port}
       /\ pLast' = [op |-> "assignPort", port |-> a.port]
  /\ pBefore' = pFree
  /\ UNCHANGED <<varsB, varsA, varsS, varsF, varsN, varsL, varsK, varsR>>

\* releasePort(port), lines 528-533: the port is appended, whatever it is.
\* The runs stop growing the list at MaxFreeLen entries.
P_Release(port) ==
  /\ Len(pFree) < MaxFreeLen
  /\ pFree' = releasePortTo(pFree, port)
  /\ pHeld' = pHeld \ {port}
  /\ pLast' = [op |-> "releasePort", port |-> port]
  /\ pBefore' = <<>>
  /\ UNCHANGED <<varsB, varsA, varsS, varsF, varsN, varsL, varsK, varsR>>

NextP ==
  \/ P_Assign
  \/ \E port \in ReleaseArgs : P_Release(port)

\* ============================================ main.go and part_001, the mutexes
\* Every place where one of the two programs takes or gives back a mutex, with
\* the I/O calls made in between and right after.  A task is a goroutine that
\* runs one of these sequences from its first operation to its last, any
\* number of times.
Drafts == {"main.go", "part_001"}
\* s.mu and r.mu are the sync.RWMutex of the two RelayServer types; tenant.mu
\* and agent.mu the sync.Mutex of one Tenant and one Agent.
LockNames == {"s.mu", "tenant.mu", "r.mu", "agent.mu"}
RegistryLocks == {"s.mu", "r.mu"}
Lock(l) == [op |-> "Lock", lock |-> l]
Unlock(l) == [op |-> "Unlock", lock |-> l]
RLock(l) == [op |-> "RLock", lock |-> l]
RUnlock(l) == [op |-> "RUnlock", lock |-> l]
IO(call) == [op |-> "IO", lock |-> call]

\* main.go, handleMetrics with getTotalConnections and getTenantMetrics,
\* lines 127-164 (deferred RUnlock: after the response is encoded to w).
metricsProg ==
  <<RLock("s.mu"), Lock("tenant.mu"), Unlock("tenant.mu"), Lock("tenant.mu"),
    Unlock("tenant.mu"), IO("Encode"), RUnlock("s.mu")>>
\* main.go, handleHealth, lines 111-125.
handleHealthProg == <<RLock("s.mu"), RUnlock("s.mu"), IO("Encode")>>
\* main.go, registerTenant, lines 279-319 (deferred Unlock).
registerProg ==
  <<Lock("s.mu"), IO("Listener.Close"), IO("net.Listen"), Unlock("s.mu")>>
\* main.go, unregisterTenant, lines 321-332 (deferred Unlock).
unregisterProg == <<Lock("s.mu"), IO("Listener.Close"), Unlock("s.mu")>>
\* A stream counting that asks the registry while it holds the tenant's mutex.
countProg_RegistryInside ==
  <<IO("Accept"), Lock("tenant.mu"), RLock("s.mu"), RUnlock("s.mu"),
    Unlock("tenant.mu"), Lock("tenant.mu"), Unlock("tenant.mu"),
    IO("clientConn.Close")>>
\* main.go, the stream counting: acceptTenantConnections, lines 338-353, and
\* the deferred calls of handleTenantConnection, lines 360-365.
countProg ==
  <<IO("Accept"), Lock("tenant.mu"), Unlock("tenant.mu"), Lock("tenant.mu"),
    Unlock("tenant.mu"), IO("clientConn.Close")>>
\* main.go, sendHeartbeats, lines 399-414.
heartbeatProg == <<RLock("s.mu"), RUnlock("s.mu"), IO("SendHeartbeat")>>
\* part_001, cleanupAgent, lines 535-550, with releasePort, lines 528-533.
cleanupProg ==
  <<Lock("r.mu"), Unlock("r.mu"), IO("listener.Close"), IO("conn.Close"),
    Lock("r.mu"), Unlock("r.mu")>>
\* part_001, heartbeatChecker, lines 556-572.
checkerProg ==
  <<RLock("r.mu"), Lock("agent.mu"), Unlock("agent.mu"), RUnlock("r.mu")>>
    \o cleanupProg
\* part_001, handleAgent, lines 427-491: assignPort, net.Listen, the store,
\* the OK write, a heartbeat line, cleanupAgent.
agentProg ==
  <<Lock("r.mu"), Unlock("r.mu"), IO("net.Listen"), Lock("r.mu"), Unlock("r.mu"),
    IO("conn.Write"), IO("ReadString"), Lock("agent.mu"), Unlock("agent.mu")>>
    \o cleanupProg
\* part_001, the /health handler, lines 577-590.
healthProg == <<RLock("r.mu"), RUnlock("r.mu"), IO("Encode")>>

Tasks ==
  {"handleHealth", "metrics", "register", "unregister", "count", "heartbeat",
   "checker", "agent", "health"}
DraftOf(t) ==
  IF t \in {"handleHealth", "metrics", "register", "unregister", "count",
            "heartbeat"}
  THEN "main.go" ELSE "part_001"
Prog(t) ==
  CASE t = "handleHealth" -> handleHealthProg
    [] t = "metrics" -> metricsProg
    [] t = "register" -> registerProg
    [] t = "unregister" -> unregisterProg
    [] t = "count" -> countProg
    [] t = "heartbeat" -> heartbeatProg
    [] t = "checker" -> checkerProg
    [] t = "agent" -> agentProg
    [] t = "health" -> healthProg

NoOne == ""
InitLocks ==
  /\ kPc = [t \in Tasks |-> 0]
  /\ locks = [l \in LockNames |-> [w |-> NoOne, r |-> {}]]

\* The operation a running task is at.
AtOp(t) == Prog(t)[kPc[t]]
Holds(t, l) == locks[l].w = t \/ t \in locks[l].r
\* sync.RWMutex: a Lock call that is waiting keeps new readers out.
WriterPending(l) ==
  \E u \in Tasks : kPc[u] # 0 /\ AtOp(u) = Lock(l) /\ locks[l].w # u
CanStep(t) ==
  /\ kPc[t] # 0
  /\ CASE AtOp(t).op = "Lock" ->
            locks[AtOp(t).lock].w = NoOne /\ locks[AtOp(t).lock].r = {}
       [] AtOp(t).op = "RLock" ->
            locks[AtOp(t).lock].w = NoOne /\ ~WriterPending(AtOp(t).lock)
       [] OTHER -> TRUE
Advance(t) ==
  kPc' = [kPc EXCEPT ![t] = IF @ = Len(Prog(t)) THEN 0 ELSE @ + 1]

\* The goroutine is started (a request, a tick, a connection).
K_Start(t) ==
  /\ DraftOf(t) = kDraft
  /\ kPc[t] = 0
  /\ kPc' = [kPc EXCEPT ![t] = 1]
  /\ UNCHANGED <<kDraft, locks>>
  /\ UNCHANGED <<varsB, varsA, varsS, varsF, varsN, varsL, varsP, varsR>>

K_Lock(t) ==
  /\ CanStep(t) /\ AtOp(t).op = "Lock"
  /\ locks' = [locks EXCEPT ![AtOp(t).lock].w = t]
  /\ Advance(t)
  /\ UNCHANGED kDraft
  /\ UNCHANGED <<varsB, varsA, varsS, varsF, varsN, varsL, varsP, varsR>>

K_Unlock(t) ==
  /\ CanStep(t) /\ AtOp(t).op = "Unlock"
  /\ locks' = [locks EXCEPT ![AtOp(t).lock].w = NoOne]
  /\ Advance(t)
  /\ UNCHANGED kDraft
  /\ UNCHANGED <<varsB, varsA, varsS, varsF, varsN, varsL, varsP, varsR>>

K_RLock(t) ==
  /\ CanStep(t) /\ AtOp(t).op = "RLock"
  /\ locks' = [locks EXCEPT ![AtOp(t).lock].r = @ \cup {t}]
  /\ Advance(t)
  /\ UNCHANGED kDraft
  /\ UNCHANGED <<varsB, varsA, varsS, varsF, varsN, varsL, varsP, varsR>>

K_RUnlock(t) ==
  /\ CanStep(t) /\ AtOp(t).op = "RUnlock"
  /\ locks' = [locks EXCEPT ![AtOp(t).lock].r = @ \ {t}]
  /\ Advance(t)
  /\ UNCHANGED kDraft
  /\ UNCHANGED <<varsB, varsA, varsS, varsF, varsN, varsL, varsP, varsR>>

\* A call that reads, writes, binds or closes a socket returns.
K_IO(t) ==
  /\ CanStep(t) /\ AtOp(t).op = "IO"
  /\ Advance(t)
  /\ UNCHANGED <<kDraft, locks>>
  /\ UNCHANGED <<varsB, varsA, varsS, varsF, varsN, varsL, varsP, varsR>>

NextK ==
  \/ \E t \in Tasks : K_Start(t)
  \/ \E t \in Tasks : K_Lock(t)
  \/ \E t \in Tasks : K_Unlock(t)
  \/ \E t \in Tasks : K_RLock(t)
  \/ \E t \in Tasks : K_RUnlock(t)
  \/ \E t \in Tasks : K_IO(t)

\* ===================================== main.go, registerTenant and the process
\* Line 311: SQLUser: fmt.Sprintf("tatbeeb_%s", tenantID[:6])
SQLUserPrefixLen == 6
\* The lengths of the tenant ids agents present: shorter than the prefix, the
\* prefix exactly, longer.
IdLens == {SQLUserPrefixLen - 1, SQLUserPrefixLen, SQLUserPrefixLen + 1}

InitR ==
  /\ process = "running"
  /\ idLen = [t \in TenantIds |-> SQLUserPrefixLen + 1]

\* tenantID[:6]: Go panics when the slice bound exceeds the string's length.
SlicePanics(id) == idLen[id] < SQLUserPrefixLen

\* Whether registerTenant gets as far as building the Tenant (line 308): a
\* port is left and net.Listen succeeded.
ReachesTenant(id, bindOK) ==
  /\ nextPortIndex < Len(portPool)
  /\ bindOK
  /\ ~PortBound(CloseExisting(Listener, id), portPool[nextPortIndex + 1])

\* handleControlConnection, lines 228-234, with registerTenant, lines 279-319,
\* for an authenticated REGISTER.  When the slice at line 311 panics, the
\* existing listener is closed, the port is taken and its listener bound, and
\* the deferred Unlock (281) releases s.mu as the panic starts to unwind; the
\* other goroutines run on.
R_Register(h) ==
  /\ process = "running"
  /\ \E id \in AcceptedIds, bindOK \in BOOLEAN :
       IF ReachesTenant(id, bindOK) /\ SlicePanics(id)
       THEN /\ pc[h] = "idle"
            /\ \A g \in HB : g < h => pc[g] # "idle"
            /\ tid' = [tid EXCEPT ![h] = id]
            /\ Listener' = [CloseExisting(Listener, id) EXCEPT ![h] = "open"]
            /\ nextPortIndex' = AllocIndex
            /\ pc' = [pc EXCEPT ![h] = "panicked"]
            /\ UNCHANGED <<tenants, AssignedPort, replaced, session, errorCode,
                           ActiveConns, acceptLoop, cpc, csess, process, idLen>>
       ELSE /\ RegisterCore(h, id, bindOK)
            /\ UNCHANGED <<process, idLen>>
  /\ msg' = NoMsg
  /\ UNCHANGED <<MaxConnectionsPerTenant, notBR>>

\* handleControlConnection, lines 167-183, in a panicking handler: the
\* deferred stream, session and connection Close run.
R_Unwind(h) ==
  /\ process = "running"
  /\ pc[h] = "panicked"
  /\ pc' = [pc EXCEPT ![h] = "unwound"]
  /\ session' = [session EXCEPT ![h] = "closed"]
  /\ UNCHANGED <<tenants, nextPortIndex, tid, AssignedPort, Listener, acceptLoop,
                 replaced, ActiveConns, cpc, csess>>
  /\ msg' = NoMsg
  /\ UNCHANGED <<errorCode, MaxConnectionsPerTenant, notBR, process, idLen>>

\* The deferred calls of the panicking goroutine are over and nothing has
\* recovered the panic: the Go runtime ends the process.
R_Exit(h) ==
  /\ process = "running"
  /\ pc[h] = "unwound"
  /\ process' = "panicked"
  /\ msg' = NoMsg
  /\ UNCHANGED <<tenants, nextPortIndex, pc, tid, AssignedPort, Listener, session,
                 acceptLoop, replaced, ActiveConns, cpc, csess, errorCode,
                 MaxConnectionsPerTenant, notBR, idLen>>

\* The other steps of the handshake and of the session, which only a running
\* process takes.
R_Reject(h) == process = "running" /\ B_Reject(h)
R_Reply(h) == process = "running" /\ B_Reply(h)
R_SessionDies(h) == process = "running" /\ B_SessionDies(h)
R_PingFail(h) == process = "running" /\ B_PingFail(h)
R_Return(h) == process = "running" /\ B_Return(h)
R_AcceptLoopExit(h) == process = "running" /\ B_AcceptLoopExit(h)

NextR ==
  \/ \E h \in HB : R_Register(h)
  \/ \E h \in HB : R_Unwind(h)
  \/ \E h \in HB : R_Exit(h)
  \/ \E h \in HB : R_Reject(h)
  \/ \E h \in HB : R_Reply(h)
  \/ \E h \in HB : R_SessionDies(h)
  \/ \E h \in HB : R_PingFail(h)
  \/ \E h \in HB : R_Return(h)
  \/ \E h \in HB : R_AcceptLoopExit(h)

\* ============================================================ specifications
InitRest == InitB /\ InitA /\ InitS /\ InitF /\ InitN /\ InitL /\ InitP /\ InitLocks /\ process = "running"
Init == InitRest /\ kDraft = "main.go" /\ InitR

\* main.go's connection limit is read by its accept loop only: the
\* specifications without that loop start from one value of it.
InitOneLimit == Init /\ MaxConnectionsPerTenant = 1

SpecB == Init /\ [][NextB]_vars
SpecA == InitOneLimit /\ [][NextA]_vars
SpecS == InitOneLimit /\ [][NextS]_vars
SpecH == InitOneLimit /\ [][NextH]_vars
SpecF == InitOneLimit /\ [][NextF]_vars
SpecN == InitOneLimit /\ [][NextN]_vars
SpecL == InitOneLimit /\ [][NextL]_vars
SpecP == InitOneLimit /\ [][NextP]_vars
\* The mutexes of either program.
\* Either draft's relay, started.
InitK == InitRest /\ MaxConnectionsPerTenant = 1 /\ kDraft \in Drafts /\ InitR
SpecK == InitK /\ [][NextK]_vars
\* main.go's registrations for tenant ids of every length.
InitLens ==
  /\ InitRest /\ MaxConnectionsPerTenant = 1 /\ kDraft = "main.go"
  /\ idLen \in [TenantIds -> IdLens]
SpecR == InitLens /\ [][NextR]_vars
\* main-simple.go with the scheduling Go gives its goroutines: a handler or a
\* forwarder that can take its next step takes it.  What the agents, the
\* clients and the operating system do (a first line arriving, a client
\* connecting, a disconnect, a failing Accept) is not forced.
SpecSLive ==
  /\ InitOneLimit
  /\ [][NextS]_vars
  /\ \A h \in HS : WF_vars(S_Reply(h)) /\ WF_vars(S_Listen(h))
  /\ \A h \in HS : WF_vars(S_CloseListener(h)) /\ WF_vars(S_CloseSession(h))
  /\ \A c \in CL : WF_vars(S_OpenStream(c)) /\ WF_vars(S_PumpEnd(c))

\* ==================================================================== claims
\* Helpers for the statements below.
\* The ports of the tenants in main.go's registry.
LivePortsB == {AssignedPort[tenants[t]] : t \in {x \in TenantIds : tenants[x] # 0}}
\* The ports main.go's pool can still hand out.
FreePortsB == {portPool[i] : i \in (nextPortIndex + 1)..Len(portPool)}
\* The client connections of tenant h that handleTenantConnection still serves.
InFlightS(h) == {c \in CL : scSess[c] = h /\ scPc[c] \in {"accepted", "forwarding"}}
\* main-simple.go: the ports the allocator can still hand out.
FreePortsS == {sPortPool[i] : i \in (sNextPortIndex + 1)..Len(sPortPool)}

\* C1 (port uniqueness): in every reachable state no two tenants present in
\* the registry have the same public port.
C1_PortUniqueness ==
  \A t1, t2 \in TenantIds :
    (t1 # t2 /\ tenants[t1] # 0 /\ tenants[t2] # 0)
      => AssignedPort[tenants[t1]] # AssignedPort[tenants[t2]]

\* C1 witness: two tenants are registered at once, on different connections,
\* after a further registration ended in a teardown or was refused a port.
C1_Witness ==
  /\ \A t \in TenantIds : tenants[t] # 0
  /\ \E t1, t2 \in TenantIds : tenants[t1] # tenants[t2]
  /\ \E h \in HB : pc[h] \in {"done_noports", "done_replyfail", "done_pingfail"}

\* C2 (conservation): free ports + tenants in the registry + ports held by a
\* handshake in progress = tenantPortEnd - tenantPortStart + 1.  registerTenant
\* runs under one lock, so no handshake of main.go holds a port between steps.
\* Stated for the runs in which every net.Listen succeeded (C4 is about the
\* others).
C2_Conservation ==
  (\A h \in HB : pc[h] # "done_bindfail")
    => available_ports + active_tenants + 0 = TenantPortEnd - TenantPortStart + 1

\* C3 (port reuse): whenever fewer tenants are live than the pool has ports
\* (and no handshake is in progress) a REGISTER is assigned a port, i.e.
\* registerTenant does not take its "No ports available" branch.  Stated for
\* the runs in which every net.Listen succeeded.
C3_PortReuse ==
  ((\A h \in HB : pc[h] # "done_bindfail") /\ active_tenants < Len(portPool))
    => nextPortIndex < Len(portPool)

\* C4 (no leak on registration failure): a handshake that ends without a
\* session inserted into the registry leaves the free port count at its value
\* before the handshake.
C4_NoLeakOnFailure ==
  [][\A h \in HB :
       (pc[h] = "idle" /\ pc'[h] \in {"done_rejected", "done_noports", "done_bindfail"})
         => available_ports' = available_ports]_vars

\* C5 (reply write failure unwinds): once the handler whose success reply
\* could not be written has returned, its tenant is out of the registry, its
\* public listener is closed and its port is back in the pool.
C5_ReplyFailureUnwinds ==
  \A h \in HB :
    pc[h] = "done_replyfail"
      => /\ tenants[tid[h]] # h
         /\ Listener[h] = "closed"
         /\ AssignedPort[h] \in FreePortsB

\* C6 (agent disconnect): when a registered agent's control connection or mux
\* session has ended and the relay has no step left to take for it (its handler
\* waits in listener.Accept, which no part of the program interrupts, and its
\* client connections are closed) the tenant is out of the registry, its
\* listener is closed, active_streams is 0 and its port is back among the free
\* ports.
C6_AgentDisconnect ==
  \A h \in HS :
    (/\ sPc[h] = "accepting"
     /\ sConn[h] = "dead"
     /\ InFlightS(h) = {})
      => /\ sTenants[sPort[h]] # h
         /\ sListener[h] = "closed"
         /\ sActiveConns[h] = 0
         /\ sPort[h] \in FreePortsS

\* C7 (re-registration always wins): a session that replaced an earlier one
\* of the same tenant id stays the registry entry of that id, with its
\* listener open, until it ends itself (its session dies, its handler
\* returns).  Stated for the sessions after which no further REGISTER for
\* the same tenant id was processed.
C7_ReRegistrationWins ==
  \A h \in HB :
    (/\ \E g \in HB : replaced[g] = h
     /\ \A k \in HB : k > h => (pc[k] \in {"idle", "done_rejected"} \/ tid[k] # tid[h])
     /\ pc[h] \in {"reply", "keepAlive"}
     /\ session[h] = "open")
      => (tenants[tid[h]] = h /\ Listener[h] = "open")

\* C8 (replacement ordering): when the second REGISTERED has been sent, the
\* replaced session's public listener is closed and its mux session is closed.
C8_ReplacementOrdering ==
  \A g, h \in HB :
    (replaced[g] = h /\ pc[h] \in {"keepAlive", "done_pingfail"})
      => (Listener[g] = "closed" /\ session[g] # "open")

\* C9 (replacement frees the old port): once tenant T on port P1 has been
\* replaced, P1 is out of the live set and back in the free pool, and the
\* clients connected through P1 are dropped (their streams are failing).
C9_ReplacementFreesPort ==
  \A g \in HB :
    replaced[g] # 0
      => /\ AssignedPort[g] \notin LivePortsB
         /\ AssignedPort[g] \in FreePortsB
         /\ \A c \in CL : (csess[c] = g /\ cpc[c] = "forwarding") => session[g] # "open"

\* C10 (a session is destroyed only by its own triggers): an agent leaves the
\* registry only in a step of its own handler's cleanup (its control reader
\* returned, or its reply could not be written) or in a step of the supervisor
\* that timed out that very agent in its last scan.
C10_OwnTriggersOnly ==
  [][\A p \in PortsA :
       (agents[p] # 0 /\ agents'[p] # agents[p])
         => \/ aPc[agents[p]] = "cleanup" /\ aPc'[agents[p]] # "cleanup"
            \/ hbPc = "loop" /\ hbPc' = "close" /\ hbPort' = p
               /\ hbScanned[p] = agents[p]]_vars

\* C11 (heartbeat staleness bound): a supervisor tick leaves no stale agent in
\* the registry.  The scan of a tick collects the port of every agent in the
\* registry whose lastHeartbeat is more than 120 s old, every collected port
\* is emptied when the supervisor takes it from its list, and the supervisor
\* goes back to waiting for the next tick only with its list empty.
C11_StalenessBound ==
  [][/\ (hbTick /\ ~hbTick')
          => \A p \in PortsA :
               (agents[p] # 0 /\ aAge[agents[p]] > TimeoutSeconds) => p \in hbPorts'
     /\ \A p \in hbPorts \ hbPorts' : agents'[p] = 0
     /\ hbPc' = "wait" => hbPorts' = {}]_vars

\* C11 witness: the supervisor has removed an agent that registered and sent
\* no HEARTBEAT for more than 120 s.
C11_Witness ==
  /\ hbPc = "release"
  /\ hbFound # 0
  /\ aAge[hbFound] > TimeoutSeconds
  /\ agents[hbPort] = 0

\* C12 (only stale tenants are declared dead): whenever the supervisor removes
\* from the registry the agent its scan collected, that agent's lastHeartbeat
\* is more than 120 s old at the moment of the removal.
C12_OnlyStaleRemoved ==
  [][\A p \in PortsA :
       (/\ hbPc = "loop" /\ hbPc' = "close" /\ hbPort' = p
        /\ agents[p] = hbScanned[p])
         => aAge[agents[p]] > TimeoutSeconds]_vars

\* C13 (pool exhaustion): a REGISTER read while every port of the range is
\* taken is answered with "ERROR no available ports", the connection is
\* closed, and the registry and the set of free ports are as before.
C13_PoolExhaustion ==
  [][\A h \in HS :
       (/\ sPc[h] = "idle" /\ sPc'[h] \notin {"idle", "done_invalid"}
        /\ FreePortsS = {})
         => /\ sReply(h)' = "ERROR no available ports"
            /\ sConn'[h] = "closed"
            /\ sTenants' = sTenants
            /\ FreePortsS' = FreePortsS]_vars

\* The ports in part_001's free list.
FreePortsA == {availablePorts[i] : i \in 1..Len(availablePorts)}

\* C14 (no free port has a bound listener): in every reachable state no port
\* of the free list is the port of an agent whose public listener is open.
C14_NoBoundFreePort ==
  \A h \in HA : aListener[h] = "open" => aPort[h] \notin FreePortsA

\* C14 witness: an agent's listener was bound and closed and its port is in
\* the free list again.
C14_Witness ==
  \E h \in HA : aListener[h] = "closed" /\ aPort[h] \in FreePortsA

\* C15 (teardown order): for every tenant that was registered, whatever
\* started its teardown, the steps come in one order - a closed listener
\* belongs to a tenant already out of the registry, a closed mux session to a
\* tenant whose listener is already closed, a released port to a tenant whose
\* session is already closed - and a teardown that has begun (here by the
\* accept loop returning) goes on to close the mux session.  Tenants whose id
\* a later registration attempt failed for are left aside.
C15_TeardownOrder ==
  \A h \in HB :
    (/\ Listener[h] # "none"
     /\ \A k \in HB : pc[k] \in {"done_noports", "done_bindfail"} => tid[k] # tid[h])
      => /\ Listener[h] = "closed" => tenants[tid[h]] # h
         /\ session[h] = "closed" => Listener[h] = "closed"
         /\ AssignedPort[h] \in FreePortsB => session[h] = "closed"
         /\ acceptLoop[h] = "done" => session[h] # "open"

\* C16 (removal stops the session's traffic): every client connection still
\* served for a tenant that is no longer in the registry is on a mux session
\* that has ended, so that its stream fails and the connection is closed by
\* the relay's next step for it.
C16_RemovalStopsTraffic ==
  \A c \in CL :
    (/\ cpc[c] \in {"counted", "forwarding"}
     /\ tenants[tid[csess[c]]] # csess[c])
      => session[csess[c]] # "open"

\* C17 (per-tenant connection cap): with a limit M > 0 no tenant's ActiveConns
\* exceeds M; the limit test of an accepted client counts it and hands it to
\* handleTenantConnection when the tenant's ActiveConns is below M, and closes
\* it with every ActiveConns unchanged when it is M; a client closed at the
\* limit stays closed, no stream is opened for it.
C17_ConnectionCap ==
  [][MaxConnectionsPerTenant > 0
       => /\ \A h \in HB : ActiveConns'[h] <= MaxConnectionsPerTenant
          /\ \A c \in CL :
               /\ (cpc[c] = "accepted" /\ cpc'[c] # "accepted")
                    => IF ActiveConns[csess[c]] < MaxConnectionsPerTenant
                       THEN /\ cpc'[c] = "counted"
                            /\ ActiveConns' = [ActiveConns EXCEPT ![csess[c]] = @ + 1]
                       ELSE /\ cpc'[c] = "refused"
                            /\ ActiveConns[csess[c]] = MaxConnectionsPerTenant
                            /\ ActiveConns' = ActiveConns
               /\ cpc'[c] = "counted" => cpc[c] \in {"accepted", "counted"}
               /\ cpc[c] = "refused" => cpc'[c] = "refused"]_vars

\* C17 witness: with M = 1 one client is being forwarded and the next client
\* of the same tenant has been refused.
C17_Witness ==
  /\ MaxConnectionsPerTenant = 1
  /\ \E c, d \in CL :
       /\ cpc[c] = "forwarding"
       /\ csess[d] = csess[c]
       /\ ActiveConns[csess[c]] = MaxConnectionsPerTenant
       /\ cpc[d] = "refused"

\* C18 (no cap when the limit is 0 or absent): with
\* maxConnectionsPerTenant = 0 no client connection is refused because of the
\* connection count.
C18_ZeroMeansUnlimited ==
  MaxConnectionsPerTenant = 0 => \A c \in CL : cpc[c] # "refused"

\* C19 (a rejected registration changes nothing): a handshake whose REGISTER
\* carries a JWT that fails verification, or a claims.sub different from the
\* payload's tenant id, is answered with an ERROR frame (INVALID_JWT, else
\* TENANT_ID_MISMATCH), the session is closed, and registry, listeners,
\* assigned ports and the available-port count are as before.
C19_RejectChangesNothing ==
  [][\A h \in HB :
       (/\ pc[h] = "idle" /\ pc'[h] # "idle"
        /\ msg'.kind = "register"
        /\ (~VerifyJWT(msg'.jwt) \/ msg'.jwt.sub # msg'.tenantID))
         => /\ errorCode'[h] = (IF VerifyJWT(msg'.jwt) THEN "TENANT_ID_MISMATCH"
                                                       ELSE "INVALID_JWT")
            /\ session'[h] = "closed"
            /\ tenants' = tenants
            /\ Listener' = Listener
            /\ AssignedPort' = AssignedPort
            /\ available_ports' = available_ports]_vars

\* C19 witness: with a tenant registered, a REGISTER whose verified token
\* names another tenant has just been rejected.
C19_Witness ==
  /\ msg.kind = "register"
  /\ VerifyJWT(msg.jwt)
  /\ msg.jwt.sub # msg.tenantID
  /\ \E h \in HB : pc[h] = "done_rejected" /\ errorCode[h] = "TENANT_ID_MISMATCH"
  /\ \E id \in TenantIds : tenants[id] # 0

\* C20 (authenticated registry): whenever a tenant id gets a new registry
\* entry, the step has read a REGISTER for that id whose token has three
\* parts and a valid signature, the configured issuer and audience, is not
\* expired, and names that id in claims.sub.
C20_AuthenticatedRegistry ==
  [][\A id \in TenantIds :
       (tenants'[id] # 0 /\ tenants'[id] # tenants[id])
         => /\ msg'.kind = "register"
            /\ msg'.tenantID = id
            /\ msg'.jwt.parts3
            /\ msg'.jwt.sigOK
            /\ msg'.jwt.decodes
            /\ msg'.jwt.iss = jwtIssuer
            /\ msg'.jwt.aud = jwtAudience
            /\ ~(msg'.jwt.exp > 0 /\ msg'.jwt.exp < Now)
            /\ msg'.jwt.sub = id]_vars

\* C20 witness: a tenant has just been entered by a REGISTER whose token
\* expires at this very second.
C20_Witness ==
  /\ msg.kind = "register"
  /\ msg.jwt.exp = Now
  /\ tenants[msg.tenantID] # 0
  /\ pc[tenants[msg.tenantID]] = "reply"

\* C21 (VerifyJWT): a REGISTER's token passes verification (the handshake is
\* not answered with INVALID_JWT) exactly when it has three parts, a matching
\* signature, the configured issuer and audience, and exp > now; a token
\* whose exp is now or earlier, or absent (0), is rejected.
C21_VerifyJWT ==
  [][\A h \in HB :
       (pc[h] = "idle" /\ pc'[h] # "idle" /\ msg'.kind = "register")
         => ((errorCode'[h] # "INVALID_JWT")
               <=> /\ msg'.jwt.parts3
                   /\ msg'.jwt.sigOK
                   /\ msg'.jwt.decodes
                   /\ msg'.jwt.iss = jwtIssuer
                   /\ msg'.jwt.aud = jwtAudience
                   /\ msg'.jwt.exp > Now)]_vars

\* C22: forwarding is byte-identity in both directions - once the forwarder
\* of a connection has returned and both pumps have ended without an error of
\* the transport, each side has read exactly the bytes the other side wrote,
\* in order, also when one side finished while bytes of the other direction
\* were still in flight.
C22_ByteIdentity ==
  (fPc = "returned" /\ ~fErr /\ \A d \in Dirs : fPump[d] = "done")
    => \A d \in Dirs : fRecv[d] = fSent[d]

\* C23: forwarder close - nothing is closed or decremented before a pump has
\* ended; once the handler has returned the client socket is closed exactly
\* once, the stream (when one was opened) exactly once, the connection's
\* contribution to ActiveConns is taken back exactly once, and the pump that
\* is still running finds room in `done` and so terminates.
C23_ForwarderClose ==
  /\ fCloses["client"] <= 1 /\ fCloses["stream"] <= 1
  /\ fActive \in {0, 1}
  /\ fPc = "waiting" => (fCloses["client"] = 0 /\ fCloses["stream"] = 0 /\ fActive = 1)
  /\ fPc = "returned" =>
       /\ fCloses["client"] = 1
       /\ fActive = 0
       /\ fCloses["stream"] = (IF \A d \in Dirs : fPump[d] = "none" THEN 0 ELSE 1)
       /\ \A d \in Dirs : fPump[d] = "running" => ENABLED F_PumpEnd(d)
C23_Witness ==
  /\ fPc = "returned"
  /\ fCloses["client"] = 1 /\ fCloses["stream"] = 1 /\ fActive = 0
  /\ \A d \in Dirs : fPump[d] = "done"
  /\ fRecv["c2a"] # <<>>

\* C24: notifier failures never affect tenant liveness - a step in which a
\* RegisterPort or SendHeartbeat call completes, whatever its outcome, leaves
\* the registry, every listener, every assigned port, every session and every
\* handler exactly where they were.
C24_NotifierHarmless ==
  [][(nReg' # nReg \/ nBeats' # nBeats)
       /\ nLast'.outcome \in Outcomes
       => UNCHANGED <<tenants, Listener, AssignedPort, nextPortIndex, session,
                      pc, acceptLoop>>]_vars
C24_Witness ==
  \E h \in HB :
    /\ nReg[h] = "called"
    /\ nBeats[h] = MaxBeats
    /\ nLast = [call |-> "SendHeartbeat", h |-> h, outcome |-> "non200"]
    /\ tid[h] # "" /\ tenants[tid[h]] = h
    /\ Listener[h] = "open"
    /\ AssignedPort[h] \in Ports

\* C25: variant A handshake order - at the step in which a handler writes
\* "OK port:<port>", the public listener on that port is bound and the tenant
\* of that port is in the registry.
C25_HandshakeOrder ==
  [][\A h \in HS :
       (sPc[h] = "reply" /\ sPc'[h] = "listen")
         => (sListener'[h] = "open" /\ sTenants'[sPort[h]] = h)]_vars

\* C26: invalid command (variant A) - when the first line of a control
\* connection was read and, trimmed, is not exactly REGISTER, the handler
\* closes the connection and leaves the port pool, the listeners and the
\* registry as they were; part_001 answers "ERROR invalid command" first.
C26_InvalidCommand ==
  [][(rawLine'.err = "" /\ TrimSpace(rawLine'.raw) # <<"REGISTER">>)
       => /\ \A h \in HL :
               (sPc[h] = "idle" /\ sPc'[h] # "idle")
                 => /\ sConn'[h] = "closed"
                    /\ UNCHANGED <<sNextPortIndex, sPort, sListener, sTenants>>
          /\ \A h \in HL :
               (aPc[h] = "idle" /\ aPc'[h] # "idle")
                 => /\ aConn'[h] = "closed"
                    /\ aReply(h)' = "ERROR invalid command"
                    /\ UNCHANGED <<availablePorts, aPort, aListener, agents>>]_vars
C26_Witness ==
  /\ rawLine = [err |-> "", raw |-> <<"REGISTER", "x">>]
  /\ sPc[2] = "done_invalid" /\ sConn[2] = "closed" /\ sPort[2] = 0
  /\ sListener[1] = "open" /\ sTenants[sPort[1]] = 1 /\ sNextPortIndex = 1
  /\ aPc[1] = "done_invalid" /\ aPort[1] = 0 /\ Len(availablePorts) = NPortsA

\* C27: handshake termination (variant A) - no handler stays blocked in the
\* read of the first line for longer than the 10-second read deadline.
C27_FirstLineDeadline ==
  /\ sReading => sWait <= ReadDeadlineSeconds
  /\ aReading => aWait <= ReadDeadlineSeconds

\* The ports in a list.
ToSet(list) == {list[i] : i \in 1..Len(list)}
NoDup(list) == \A i, j \in 1..Len(list) : i # j => list[i] # list[j]

C29_ReleaseAcquire ==
  [][(/\ pLast.op = "assignPort" /\ pLast.port # 0
      /\ pLast'.op = "releasePort" /\ pLast'.port = pLast.port)
       => ToSet(pFree') = ToSet(pBefore)]_vars
C29_Witness ==
  /\ pLast = [op |-> "releasePort", port |-> TenantPortStart]
  /\ pFree = <<TenantPortStart + 1, TenantPortStart + 2, TenantPortStart>>
  /\ pHeld = {}

\* The ports part_001 holds outside the registry and the free list: assigned
\* to a handler that has not stored its agent yet, or taken out of the
\* registry by a cleanupAgent call that has not released them yet.
HeldPortsA ==
  {aPort[h] : h \in {g \in HA : aPc[g] \in {"listen", "close", "release"}}}
    \cup (IF hbPc \in {"close", "release"} THEN {hbPort} ELSE {})
RegistryPortsA == {p \in PortsA : agents[p] # 0}

\* C30: in every reachable state the ports of the agents in the registry are
\* disjoint from the free list, the free list holds no port twice (a port is
\* released once however many cleanups race for its agent), and the registry
\* ports, the free ports and the ports held mid-handshake or mid-teardown
\* together are exactly the configured range.
C30_PoolPartition ==
  /\ RegistryPortsA \cap FreePortsA = {}
  /\ NoDup(availablePorts)
  /\ HeldPortsA \cap (RegistryPortsA \cup FreePortsA) = {}
  /\ RegistryPortsA \cup FreePortsA \cup HeldPortsA = PortsA
\* C30 witness: the supervisor's cleanup has removed an agent and is about to
\* release its port while that agent's handler has already run its own
\* cleanup and found nothing to release.
C30_Witness ==
  /\ hbPc = "release"
  /\ \E h \in HA : hbFound = h /\ aPc[h] = "done_cleaned" /\ aFound[h] = 0
  /\ availablePorts = <<>>

\* The client connections of a tenant whose stream is open and being pumped.
Pumping(h) == {c \in CL : csess[c] = h /\ cpc[c] = "forwarding"}

\* C31: a tenant's ActiveConns is >= 0 and equals the number of its client
\* connections that have an open stream being pumped.
C31_CountsPumped ==
  \A h \in HB : ActiveConns[h] >= 0 /\ ActiveConns[h] = Cardinality(Pumping(h))

\* C32: OpenStream failure - once a client of a tenant has been closed because
\* the outbound stream could not be opened, with the tenant's ActiveConns as
\* it was before that client, the tenant is eventually torn down: removed
\* from the registry with its listener closed.
C32_OpenStreamFailure ==
  \A h \in HS :
    (\E c \in CL : scSess[c] = h /\ scPc[c] = "closed_nostream")
      ~> ((\A p \in PortsS : sTenants[p] # h) /\ sListener[h] = "closed")

\* C33: no lock is held across I/O - a task that is at a call that binds,
\* closes, reads or writes a socket holds no registry lock, neither for
\* writing nor for reading.
C33_NoLockAcrossIO ==
  \A t \in Tasks :
    (kPc[t] # 0 /\ AtOp(t).op = "IO") => \A l \in RegistryLocks : ~Holds(t, l)

\* The tasks a waiting task waits for: the holders of the mutex it asks for
\* and, for a reader, the writers waiting before it.
WaitsFor(t) ==
  IF kPc[t] = 0 \/ CanStep(t) THEN {}
  ELSE {u \in Tasks \ {t} :
          \/ Holds(u, AtOp(t).lock)
          \/ /\ AtOp(t).op = "RLock"
             /\ kPc[u] # 0 /\ AtOp(u) = Lock(AtOp(t).lock)}

\* C37: deadlock freedom - no task that holds a tenant's or an agent's mutex
\* is at a call that takes a registry lock, and there is no set of waiting
\* tasks each of which waits for a task of the set.
C37_DeadlockFreedom ==
  /\ \A t \in Tasks :
       (kPc[t] # 0 /\ (Holds(t, "tenant.mu") \/ Holds(t, "agent.mu")))
         => ~(AtOp(t).op \in {"Lock", "RLock"} /\ AtOp(t).lock \in RegistryLocks)
  /\ ~\E D \in SUBSET Tasks :
        /\ D # {}
        /\ \A t \in D : kPc[t] # 0 /\ ~CanStep(t) /\ WaitsFor(t) \cap D # {}
\* C37 witness: the metrics handler holds the registry lock for reading and
\* waits for the tenant's mutex, which the stream counting holds, while a
\* registration waits for the registry lock.
C37_Witness ==
  /\ "metrics" \in locks["s.mu"].r
  /\ kPc["metrics"] # 0 /\ AtOp("metrics") = Lock("tenant.mu")
  /\ locks["tenant.mu"].w = "count"
  /\ kPc["register"] # 0 /\ AtOp("register") = Lock("s.mu")

\* C34: directory heartbeats follow the session's life - a sendHeartbeats task
\* posts a heartbeat only while the session it was started for is the one in
\* the registry under its tenant id.
C34_HeartbeatOwnSession ==
  [][\A h \in HN : nBeats'[h] # nBeats[h] => tenants[tid[h]] = h]_vars

\* C35: a failed re-registration leaves the existing session intact - when
\* registerTenant returns nil (no port left, or the bind failed) for a tenant
\* id that is in the registry with its listener open, the entry is still
\* there afterwards and its listener is still open.
C35_FailedReRegistration ==
  [][\A h \in HB :
       (/\ pc[h] = "idle"
        /\ pc'[h] \in {"done_noports", "done_bindfail"}
        /\ tenants[tid'[h]] # 0
        /\ Listener[tenants[tid'[h]]] = "open")
         => /\ tenants'[tid'[h]] = tenants[tid'[h]]
            /\ Listener'[tenants[tid'[h]]] = "open"]_vars

\* C36: no registration can bring the relay down - whatever the length of the
\* tenant id of an authenticated REGISTER, the process keeps running.
C36_ProcessSurvives == process = "running"

\* C38: in variant A a registry insert never overwrites a live entry - at the
\* step where a handshake stores its agent (part_001) or its tenant
\* (main-simple.go) under the key derived from its port, the registry holds no
\* entry under that key.
C38_InsertFresh ==
  [][/\ \A p \in PortsA :
          (agents'[p] # 0 /\ agents'[p] # agents[p]) => agents[p] = 0
     /\ \A p \in PortsS :
          (sTenants'[p] # 0 /\ sTenants'[p] # sTenants[p]) => sTenants[p] = 0]_vars
\* A second handshake stores its agent under a port an earlier agent held, after
\* that agent's entry was deleted and its port released.
C38_Witness ==
  \E h \in HA, g \in HA :
    /\ g < h
    /\ aPort[g] = aPort[h]
    /\ aPc[g] = "done_cleaned"
    /\ aPc[h] \in {"reply", "loop"}
    /\ agents[aPort[h]] = h

====
